---- MODULE Spec2Model ----
(***************************************************************************)
(* Quiz service of the Gyan-setu backend: the quiz store and its reads,    *)
(* the grading of a submission, the recording of attempts in the learner's *)
(* Progress document, the analytics of a quiz, and the middlewares of the  *)
(* quiz router, modelled from src/src/services/Quiz.service.ts (and its    *)
(* later revision src/unnamed/part_004), the controllers, the router, the  *)
(* zod schemas and the mongoose models.                                    *)
(***************************************************************************)
EXTENDS Integers, Sequences, FiniteSets, TLC

VARIABLES
    quizzes,    \* the Quiz collection: ObjectId -> document or NoDoc
    progress,   \* the Progress collection: <<userId, lessonId>> -> document or NoDoc
    req,        \* the submitQuizAttempt calls in flight: slot -> locals and position
    response,   \* what the last completed handler returned
    http        \* the router's side: the clock, the rate limiter's stores, and
                \* the principal and route of the last request and how many came

vars == <<quizzes, progress, req, response, http>>

(***************************************************************************)
(* Bounds of the model.                                                    *)
(***************************************************************************)
MaxQuestions == 2
MaxAnswers == 2
MaxReqs == 3
MaxQuizzes == 2
MaxUsers == 2
MaxServed == 2
MaxTicks == 3

(***************************************************************************)
(* Values.                                                                 *)
(***************************************************************************)
Undefined == [undefined |-> TRUE]
UndefinedText == <<"undefined">>
NoDoc == [null |-> TRUE]

\* An ObjectId: which collection or array generated it, and a serial number.
Oid(kind, n) == [kind |-> kind, n |-> n]

QuizOids == {Oid("quiz", n) : n \in 1..MaxQuizzes}
LessonOids == {Oid("lesson", 1)}
UserOids == {Oid("user", n) : n \in 1..MaxUsers}
\* a well-formed id that names no document
GhostOid == Oid("none", 0)

\* the ObjectId generated for option j of question q of a quiz
OptionOid(q, j) == [kind |-> "option", q |-> q, n |-> j]

RECURSIVE Gcd(_, _)
Gcd(a, b) == IF b = 0 THEN a ELSE Gcd(b, a % b)

Abs(x) == IF x < 0 THEN 0 - x ELSE x

Min(S) == CHOOSE x \in S : \A y \in S : x <= y

\* a JavaScript number that is a quotient, kept exact: n/d in lowest terms, d > 0
Frac(n, d) ==
    LET g == Gcd(Abs(n), d)
    IN  [n |-> n \div g, d |-> d \div g]

Num(k) == [n |-> k, d |-> 1]

\* a > b and a >= b on such numbers
Gt(a, b) == a.n * b.d > b.n * a.d
Ge(a, b) == a.n * b.d >= b.n * a.d

(***************************************************************************)
(* Identifiers as they travel in requests.  A caller sends an id as a hex  *)
(* string (mongoIdSchema accepts both letter cases); mongoose casts such a *)
(* string to an ObjectId, and ObjectId.toString() prints lower-case hex.   *)
(***************************************************************************)
\* a 24-digit hex string: the ObjectId it spells, and whether its letters are
\* in upper case
HexString(oid, upper) == [hex |-> oid, upper |-> upper]

\* a route parameter that is no hex string (idParamSchema accepts any string
\* that is not empty)
MalformedId == [malformed |-> TRUE]

\* whether mongoose can cast the string to an ObjectId; if not, the query
\* throws a CastError
CastsToObjectId(s) == "hex" \in DOMAIN s

\* new Types.ObjectId(s), and mongoose's cast of a string to an ObjectId
ToObjectId(s) == s.hex

\* ObjectId.prototype.toString()
OidToString(oid) == HexString(oid, FALSE)

\* the hex strings a caller can send for an ObjectId among oids
HexStringsOf(oids) == {HexString(o, u) : o \in oids, u \in BOOLEAN}

(***************************************************************************)
(* Texts are sequences of characters; String.prototype.trim and            *)
(* toLowerCase on them.                                                    *)
(***************************************************************************)
LowerOf(c) ==
    CASE c = "A" -> "a"
      [] c = "B" -> "b"
      [] OTHER -> c

RECURSIVE TrimStart(_)
TrimStart(t) ==
    IF t # <<>> /\ Head(t) = " " THEN TrimStart(Tail(t)) ELSE t

RECURSIVE TrimEnd(_)
TrimEnd(t) ==
    IF t # <<>> /\ t[Len(t)] = " " THEN TrimEnd(SubSeq(t, 1, Len(t) - 1)) ELSE t

Trim(t) == TrimEnd(TrimStart(t))

ToLowerCase(t) == [i \in 1..Len(t) |-> LowerOf(t[i])]

\* s?.trim().toLowerCase(): undefined stays undefined
TrimLowerOpt(t) == IF t = UndefinedText THEN UndefinedText ELSE ToLowerCase(Trim(t))

(***************************************************************************)
(* Objects: a JavaScript object is a function from its keys.               *)
(***************************************************************************)
Has(obj, key) == key \in DOMAIN obj

\* the object with only the keys of keys (zod's z.object strips the others;
\* a mongoose document keeps only the paths of its schema)
RestrictTo(obj, keys) == [k \in (DOMAIN obj) \cap keys |-> obj[k]]

\* {...a, ...b}, and $set: b applied to the document a
Merge(a, b) ==
    [k \in (DOMAIN a) \cup (DOMAIN b) |-> IF k \in DOMAIN b THEN b[k] ELSE a[k]]

(***************************************************************************)
(* Grading: the synchronous part of submitQuizAttempt between the load of  *)
(* the quiz and the recording of the attempt.                              *)
(***************************************************************************)
ChoiceTypes == {"multiple_choice", "true_false", "image_choice"}
QuestionTypes == ChoiceTypes \cup {"fill_blank"}

\* questions.reduce((sum, q) => sum + (q.points || 0), 0)
RECURSIVE SumPoints(_)
SumPoints(questions) ==
    IF questions = <<>> THEN 0
    ELSE (IF Has(Head(questions), "points") THEN Head(questions).points ELSE 0)
         + SumPoints(Tail(questions))

\* mutant of FindAnswer: the last entry for the question instead of the first
FindAnswerLast(answers, question) ==
    LET hits == {i \in 1..Len(answers) :
                    answers[i].questionId = OidToString(question._id)}
    IN  IF hits = {} THEN 0 ELSE CHOOSE i \in hits : \A h \in hits : h <= i

\* mutant of FindAnswer: the entry at the head of the list, whatever its question
FindAnswerHead(answers, question) == IF answers = <<>> THEN 0 ELSE 1

\* answers.find(a => a.questionId === question._id.toString()): index of the
\* first such entry, 0 when there is none
FindAnswer(answers, question) ==
    LET hits == {i \in 1..Len(answers) :
                    answers[i].questionId = OidToString(question._id)}
    IN  IF hits = {} THEN 0 ELSE Min(hits)

\* question.options.find(o => o._id.toString() === userAnswer.selectedOption)
FindOption(question, selected) ==
    LET hits == {i \in 1..Len(question.options) :
                    OidToString(question.options[i]._id) = selected}
    IN  IF hits = {} THEN 0 ELSE Min(hits)

\* whether the answer entry makes the question correct
AnswerIsCorrect(question, userAnswer) ==
    IF question.type \in ChoiceTypes
    THEN LET k == FindOption(question, userAnswer.selectedOption)
         IN  k # 0 /\ question.options[k].isCorrect
    ELSE IF question.type = "fill_blank"
    THEN TrimLowerOpt(userAnswer.answer) = TrimLowerOpt(question.correctAnswer)
    ELSE FALSE

\* one row of results: the body of quiz.questions.map(question => ...)
GradeQuestion(question, answers) ==
    LET i == FindAnswer(answers, question)
        isCorrect == i # 0 /\ AnswerIsCorrect(question, answers[i])
    IN  [questionId |-> question._id,
         selectedOption |-> IF i # 0 /\ answers[i].selectedOption # Undefined
                            THEN ToObjectId(answers[i].selectedOption)
                            ELSE Undefined,
         answer |-> IF i # 0 THEN answers[i].answer ELSE UndefinedText,
         isCorrect |-> isCorrect,
         points |-> IF isCorrect THEN question.points ELSE 0,
         explanation |-> question.explanation]

GradeResults(quiz, answers) ==
    [k \in 1..Len(quiz.questions) |-> GradeQuestion(quiz.questions[k], answers)]

\* let score = 0; ... if (isCorrect) score += pointsEarned
RECURSIVE SumEarned(_)
SumEarned(results) ==
    IF results = <<>> THEN 0
    ELSE (IF Head(results).isCorrect THEN Head(results).points ELSE 0)
         + SumEarned(Tail(results))

\* quiz.totalPoints || quiz.questions.reduce(...)
EffectiveTotal(quiz) ==
    IF quiz.totalPoints # 0 THEN quiz.totalPoints ELSE SumPoints(quiz.questions)

\* totalPoints > 0 ? (score / totalPoints) * 100 : 0
Percentage(score, totalPoints) ==
    IF totalPoints > 0 THEN Frac(score * 100, totalPoints) ELSE Num(0)

\* mutant of Passed: a strict comparison
PassedStrict(percentage, quiz) == Gt(percentage, Num(quiz.passingScore))

\* percentage >= quiz.passingScore
Passed(percentage, quiz) == Ge(percentage, Num(quiz.passingScore))

Grade(quiz, answers) ==
    LET results == GradeResults(quiz, answers)
        score == SumEarned(results)
        totalPoints == EffectiveTotal(quiz)
        percentage == Percentage(score, totalPoints)
    IN  [score |-> score,
         totalPoints |-> totalPoints,
         percentage |-> percentage,
         passed |-> Passed(percentage, quiz),
         results |-> results]

(***************************************************************************)
(* Request validation of the quiz routes: validate(createQuizSchema),      *)
(* validate(updateQuizSchema).                                             *)
(***************************************************************************)
QuestionSchemaKeys == {"type", "options", "correctAnswer", "explanation", "points"}
QuizSchemaKeys ==
    {"lessonId", "passingScore", "attemptsAllowed", "showCorrectAnswers", "questions"}

\* questionSchema: unknown keys stripped, points: z.number().default(1)
ParseQuestion(q) ==
    Merge([points |-> 1], RestrictTo(q, QuestionSchemaKeys))

ParseQuestions(qs) == [k \in 1..Len(qs) |-> ParseQuestion(qs[k])]

\* the part of createQuizSchema.partial() that can fail
QuizFieldsValid(body) ==
    /\ Has(body, "questions") => Len(body.questions) >= 1
    /\ Has(body, "passingScore") => body.passingScore \in 0..100

\* mutant of ParseQuizBody: unknown keys are kept
ParseQuizBodyLoose(body) ==
    IF Has(body, "questions")
    THEN Merge(body, [questions |-> ParseQuestions(body.questions)])
    ELSE body

\* the value schema.parse(body) returns
ParseQuizBody(body) ==
    LET kept == RestrictTo(body, QuizSchemaKeys)
    IN  IF Has(kept, "questions")
        THEN Merge(kept, [questions |-> ParseQuestions(kept.questions)])
        ELSE kept

\* createQuizSchema: questions is required
CreateBodyValid(body) == Has(body, "questions") /\ QuizFieldsValid(body)

\* updateQuizSchema = createQuizSchema.partial()
UpdateBodyValid(body) == QuizFieldsValid(body)

(***************************************************************************)
(* The Quiz model: casting to the schema, defaults, validators.            *)
(***************************************************************************)
QuizModelKeys ==
    QuizSchemaKeys \cup {"totalPoints", "createdBy", "isActive", "isDeleted"}

\* OptionSchema: an _id is generated for every option
CastOption(o, q, j) == [_id |-> OptionOid(q, j), isCorrect |-> o.isCorrect]

\* QuestionSchema: an _id is generated, options defaults to [], points to 1
CastQuestion(q, k) ==
    [_id |-> Oid("question", k),
     type |-> q.type,
     options |-> IF Has(q, "options")
                 THEN [j \in 1..Len(q.options) |-> CastOption(q.options[j], k, j)]
                 ELSE <<>>,
     correctAnswer |-> IF Has(q, "correctAnswer") THEN q.correctAnswer ELSE UndefinedText,
     explanation |-> IF Has(q, "explanation") THEN q.explanation ELSE UndefinedText,
     points |-> IF Has(q, "points") THEN q.points ELSE 1]

CastQuestions(qs) == [k \in 1..Len(qs) |-> CastQuestion(qs[k], k)]

\* the paths of data the schema knows, cast
CastQuizData(data) ==
    LET kept == RestrictTo(data, QuizModelKeys)
    IN  IF Has(kept, "questions")
        THEN Merge(kept, [questions |-> CastQuestions(kept.questions)])
        ELSE kept

QuizDefaults ==
    [lessonId |-> Undefined,
     passingScore |-> 60,
     attemptsAllowed |-> 0 - 1,
     showCorrectAnswers |-> TRUE,
     questions |-> <<>>,
     isActive |-> TRUE,
     isDeleted |-> FALSE]

\* new QuizModel(data)
NewQuizDoc(data) == Merge(QuizDefaults, CastQuizData(data))

\* MultilingualSchema: en is required, and a required string may not be empty
QuestionsValid(questions) ==
    \A k \in 1..Len(questions) : questions[k].correctAnswer # <<>>

\* the validators save() runs: totalPoints and createdBy are required
QuizDocValid(doc) ==
    /\ Has(doc, "totalPoints")
    /\ Has(doc, "createdBy")
    /\ QuestionsValid(doc.questions)

\* the validators findOneAndUpdate runs on the paths of the update (runValidators)
UpdateValid(update) ==
    Has(update, "questions") => QuestionsValid(update.questions)

(***************************************************************************)
(* QuizService: createQuiz, updateQuiz, deleteQuiz.                        *)
(***************************************************************************)
\* quizData.questions?.reduce((sum, q) => sum + (q.points || 0), 0) || 0
CreateTotalPoints(quizData) ==
    IF Has(quizData, "questions") THEN SumPoints(quizData.questions) ELSE 0

\* { ...quizData, totalPoints, createdBy: new Types.ObjectId(userId) }
CreateQuizData(quizData, userId) ==
    Merge(quizData, [totalPoints |-> CreateTotalPoints(quizData), createdBy |-> userId])

\* if (updateData.questions) updateData.totalPoints = updateData.questions.reduce(...)
UpdateQuizData(updateData) ==
    IF Has(updateData, "questions")
    THEN Merge(updateData, [totalPoints |-> SumPoints(updateData.questions)])
    ELSE updateData

\* mutant of LiveQuiz: the filter without isDeleted: false
QuizExists(store, oid) == oid \in QuizOids /\ store[oid] # NoDoc

\* { _id: quizId, isDeleted: false }
LiveQuiz(store, oid) ==
    oid \in QuizOids /\ store[oid] # NoDoc /\ ~store[oid].isDeleted

\* the _id of the next inserted quiz
FreshQuizOid(store) ==
    Oid("quiz", Min({n \in 1..MaxQuizzes : store[Oid("quiz", n)] = NoDoc}))

\* what a handler answered, with the request it answered
Reply(op, status, body, request) ==
    [op |-> op, status |-> status, body |-> body, request |-> request]

\* POST /quizzes: validate(createQuizSchema), createQuiz controller and service
CreateQuiz(body, userId) ==
    /\ \E oid \in QuizOids : quizzes[oid] = NoDoc
    /\ IF ~CreateBodyValid(body)
       THEN /\ response' = Reply("createQuiz", 400, NoDoc, body)
            /\ UNCHANGED quizzes
       ELSE LET doc == NewQuizDoc(CreateQuizData(ParseQuizBody(body), userId))
            IN  IF ~QuizDocValid(doc)
                THEN /\ response' = Reply("createQuiz", 500, NoDoc, body)
                     /\ UNCHANGED quizzes
                ELSE /\ quizzes' = [quizzes EXCEPT ![FreshQuizOid(quizzes)] = doc]
                     /\ response' = Reply("createQuiz", 201, doc, body)
    /\ UNCHANGED <<progress, req>>

\* PATCH /quizzes/:id: validate(updateQuizSchema), updateQuiz controller and service
UpdateQuiz(id, body) ==
    /\ IF ~UpdateBodyValid(body)
       THEN /\ response' = Reply("updateQuiz", 400, NoDoc, [id |-> id, body |-> body])
            /\ UNCHANGED quizzes
       ELSE LET update == CastQuizData(UpdateQuizData(ParseQuizBody(body)))
                oid == ToObjectId(id)
            IN  IF ~UpdateValid(update) \/ ~CastsToObjectId(id)
                THEN /\ response' = Reply("updateQuiz", 500, NoDoc, [id |-> id, body |-> body])
                     /\ UNCHANGED quizzes
                ELSE IF ~LiveQuiz(quizzes, oid)
                THEN /\ response' = Reply("updateQuiz", 404, NoDoc, [id |-> id, body |-> body])
                     /\ UNCHANGED quizzes
                ELSE /\ quizzes' = [quizzes EXCEPT ![oid] = Merge(@, update)]
                     /\ response' = Reply("updateQuiz", 200, quizzes'[oid], [id |-> id, body |-> body])
    /\ UNCHANGED <<progress, req>>

\* DELETE /quizzes/:id: deleteQuiz controller and service
DeleteQuiz(id) ==
    /\ LET oid == ToObjectId(id)
       IN  IF ~CastsToObjectId(id)
           THEN /\ response' = Reply("deleteQuiz", 500, NoDoc, [id |-> id])
                /\ UNCHANGED quizzes
           ELSE IF ~LiveQuiz(quizzes, oid)
           THEN /\ response' = Reply("deleteQuiz", 404, NoDoc, [id |-> id])
                /\ UNCHANGED quizzes
           ELSE /\ quizzes' = [quizzes EXCEPT
                                  ![oid] = Merge(@, [isDeleted |-> TRUE, isActive |-> FALSE])]
                /\ response' = Reply("deleteQuiz", 200, NoDoc, [id |-> id])
    /\ UNCHANGED <<progress, req>>

(***************************************************************************)
(* QuizService: getAllQuizzes, getQuizById.                                *)
(***************************************************************************)
Roles == {"student", "teacher", "admin"}

\* mutant of FindQuizById: an id that names no quiz finds the first quiz
FindQuizByIdOrFirst(store, id) ==
    IF ToObjectId(id) \in QuizOids /\ store[ToObjectId(id)] # NoDoc
    THEN store[ToObjectId(id)]
    ELSE store[Oid("quiz", 1)]

\* QuizModel.findById(quizId)
FindQuizById(store, id) ==
    IF ToObjectId(id) \in QuizOids THEN store[ToObjectId(id)] ELSE NoDoc

\* an object without the keys of keys: const { a, b, ...rest } = obj
Without(obj, keys) == [k \in (DOMAIN obj) \ keys |-> obj[k]]

\* mutant of StudentQuestion: the answer key of a fill_blank question and the
\* explanation go, the options stay as stored
StudentQuestionKeepingOptions(q) == Without(q, {"correctAnswer", "explanation"})

\* the body of quizObj.questions.map: correctAnswer and explanation are left
\* out, and isCorrect is left out of every option
StudentQuestion(q) ==
    LET rest == Without(q, {"correctAnswer", "explanation"})
    IN  Merge(rest, [options |-> [j \in 1..Len(q.options) |->
                                     Without(q.options[j], {"isCorrect"})]])

\* the view of getQuizById for a student: quiz.toObject() with its questions
\* mapped
StudentView(quiz) ==
    Merge(quiz, [questions |-> [k \in 1..Len(quiz.questions) |->
                                   StudentQuestion(quiz.questions[k])]])

\* what getQuizById returns for the role
QuizViewFor(quiz, userRole) ==
    IF userRole = "student" THEN StudentView(quiz) ELSE quiz

\* GET /quizzes/:id: getQuizById controller and service
GetQuizById(id, userRole) ==
    /\ LET request == [id |-> id, role |-> userRole]
       IN  IF ~CastsToObjectId(id)
           THEN response' = Reply("getQuizById", 500, NoDoc, request)
           ELSE LET quiz == FindQuizById(quizzes, id)
                IN  IF quiz = NoDoc \/ quiz.isDeleted
                    THEN response' = Reply("getQuizById", 404, NoDoc, request)
                    ELSE response' = Reply("getQuizById", 200,
                                           QuizViewFor(quiz, userRole), request)
    /\ UNCHANGED <<quizzes, progress, req>>

\* mutant of Matches: the conditions on isDeleted are not applied
MatchesButDeleted(doc, conditions) ==
    \A k \in (DOMAIN conditions) \ {"isDeleted"} : Has(doc, k) /\ doc[k] = conditions[k]

\* whether a document matches the conditions of a query
Matches(doc, conditions) ==
    \A k \in DOMAIN conditions : Has(doc, k) /\ doc[k] = conditions[k]

\* QuizModel.find({ ...filter, isDeleted: false }), in _id order
RECURSIVE FindQuizzes(_, _, _)
FindQuizzes(store, conditions, n) ==
    IF n = 0 THEN <<>>
    ELSE LET doc == store[Oid("quiz", n)]
             before == FindQuizzes(store, conditions, n - 1)
         IN  IF doc # NoDoc /\ Matches(doc, conditions) THEN Append(before, doc) ELSE before

\* GET /quizzes: getAllQuizzes controller and service, with the query as filter
GetAllQuizzes(filter) ==
    /\ response' = Reply("getAllQuizzes", 200,
                         FindQuizzes(quizzes, Merge(filter, [isDeleted |-> FALSE]),
                                     MaxQuizzes),
                         [filter |-> filter])
    /\ UNCHANGED <<quizzes, progress, req>>

(***************************************************************************)
(* The Progress model and the recording part of submitQuizAttempt.         *)
(***************************************************************************)
ProgressKeys == UserOids \X LessonOids

\* new ProgressModel({ userId, lessonId, quizAttempts: [] }): bestQuizScore defaults to 0
NewProgressDoc == [quizAttempts |-> <<>>, bestQuizScore |-> Num(0)]

\* ProgressModel.findOne({ userId, lessonId }), as the document object the call
\* works on: the loaded document, or a new one
LoadProgress(store, userId, lessonId) ==
    IF store[<<userId, lessonId>>] = NoDoc
    THEN [isNew |-> TRUE, read |-> NoDoc, doc |-> NewProgressDoc, pushed |-> <<>>,
          bestModified |-> FALSE]
    ELSE [isNew |-> FALSE, read |-> store[<<userId, lessonId>>],
          doc |-> store[<<userId, lessonId>>], pushed |-> <<>>, bestModified |-> FALSE]

\* progress.quizAttempts.filter(a => a.quizId.toString() === quizId).length + 1
AttemptNumber(doc, quizId) ==
    Cardinality({i \in 1..Len(doc.quizAttempts) :
                    OidToString(doc.quizAttempts[i].quizId) = quizId}) + 1

AnswerRow(r) ==
    [questionId |-> r.questionId, selectedOption |-> r.selectedOption,
     answer |-> r.answer, isCorrect |-> r.isCorrect, points |-> r.points]

\* the attempt object; call is the serial number of the call, standing for submittedAt
NewAttempt(quizId, attemptNumber, graded, call) ==
    [quizId |-> ToObjectId(quizId),
     attemptNumber |-> attemptNumber,
     score |-> graded.score,
     totalPoints |-> graded.totalPoints,
     percentage |-> graded.percentage,
     passed |-> graded.passed,
     answers |-> [k \in 1..Len(graded.results) |-> AnswerRow(graded.results[k])],
     call |-> call]

\* if (percentage > progress.bestQuizScore) progress.bestQuizScore = percentage
BumpBest(best, percentage) == IF Gt(percentage, best) THEN percentage ELSE best

\* the document object after quizAttempts.push(attempt) and the bump of
\* bestQuizScore, with what mongoose tracks as modified
RecordAttempt(loaded, quizId, graded, call) ==
    LET attempt == NewAttempt(quizId, AttemptNumber(loaded.doc, quizId), graded, call)
        best == BumpBest(loaded.doc.bestQuizScore, graded.percentage)
    IN  [isNew |-> loaded.isNew,
         read |-> loaded.read,
         doc |-> [quizAttempts |-> Append(loaded.doc.quizAttempts, attempt),
                  bestQuizScore |-> best],
         pushed |-> <<attempt>>,
         bestModified |-> best # loaded.doc.bestQuizScore]

\* mutant of SaveSucceeds: no unique index, every insert is accepted
SaveAlwaysSucceeds(store, key, local) == TRUE

\* whether progress.save() succeeds: a new document is inserted, and the unique
\* index on (userId, lessonId) rejects a second one
SaveSucceeds(store, key, local) == ~local.isNew \/ store[key] = NoDoc

\* mutant of SavedDoc: save() writes the whole document object back
SavedDocWhole(store, key, local) == local.doc

\* the stored document after progress.save(): a new document is inserted whole;
\* for a loaded document mongoose sends the delta, $push of the pushed attempts
\* and $set of bestQuizScore when it was modified
SavedDoc(store, key, local) ==
    IF local.isNew
    THEN local.doc
    ELSE [quizAttempts |-> store[key].quizAttempts \o local.pushed,
          bestQuizScore |-> IF local.bestModified
                            THEN local.doc.bestQuizScore
                            ELSE store[key].bestQuizScore]

\* mutant of SubmitResult: the second learner is told a score of 0
SubmitResultByLearner(quizId, userId, graded) ==
    [quizId |-> quizId, userId |-> userId,
     score |-> IF userId = Oid("user", 1) THEN graded.score ELSE 0,
     totalPoints |-> graded.totalPoints, percentage |-> graded.percentage,
     passed |-> graded.passed, results |-> graded.results]

\* what submitQuizAttempt returns
SubmitResult(quizId, userId, graded) ==
    [quizId |-> quizId, userId |-> userId, score |-> graded.score,
     totalPoints |-> graded.totalPoints, percentage |-> graded.percentage,
     passed |-> graded.passed, results |-> graded.results]

(***************************************************************************)
(* submitQuizAttempt, POST /quizzes/:id/attempt.  The handler runs between *)
(* its awaits without interruption; each await (findById, findOne, save)   *)
(* is one step, and other requests may run between two steps.  Slot r      *)
(* holds the r-th call.                                                    *)
(***************************************************************************)
Reqs == 1..MaxReqs

Idle == [pc |-> "idle"]
\* a finished call: what it answered, for whom, and the lesson whose Progress
\* document it wrote to (Undefined when it wrote to none)
Done(status, request, lessonId) ==
    [pc |-> "done", status |-> status, userId |-> request.userId, id |-> request.id,
     lessonId |-> lessonId]

SubmitRequest(r, id, userId, answers) ==
    [call |-> r, id |-> id, userId |-> userId, answers |-> answers]

\* submitQuizAttemptSchema: answers holds at least one entry
SubmitBodyValid(answers) == Len(answers) >= 1

\* mutant of QuizLesson: a quiz without a lesson counts for the first lesson
QuizLessonOrFirst(quiz) ==
    IF quiz.lessonId = Undefined THEN Oid("lesson", 1) ELSE quiz.lessonId

\* quiz.lessonId, as read by if (quiz.lessonId) and findOne({ userId, lessonId })
QuizLesson(quiz) == quiz.lessonId

\* the call (validate, controller), await QuizModel.findById, the grading, and
\* the return when the quiz has no lesson
SubmitLoadQuiz(r, id, userId, answers) ==
    /\ req[r] = Idle
    /\ \A p \in 1..(r - 1) : req[p] # Idle
    /\ LET quiz == FindQuizById(quizzes, id)
           request == SubmitRequest(r, id, userId, answers)
       IN  IF ~SubmitBodyValid(answers)
           THEN /\ req' = [req EXCEPT ![r] = Done(400, request, Undefined)]
                /\ response' = Reply("submitQuizAttempt", 400, NoDoc, request)
           ELSE IF ~CastsToObjectId(id)
           THEN /\ req' = [req EXCEPT ![r] = Done(500, request, Undefined)]
                /\ response' = Reply("submitQuizAttempt", 500, NoDoc, request)
           ELSE IF quiz = NoDoc
           THEN /\ req' = [req EXCEPT ![r] = Done(404, request, Undefined)]
                /\ response' = Reply("submitQuizAttempt", 404, NoDoc, request)
           ELSE LET graded == Grade(quiz, answers)
                IN  IF QuizLesson(quiz) = Undefined
                    THEN /\ req' = [req EXCEPT ![r] = Done(201, request, Undefined)]
                         /\ response' = Reply("submitQuizAttempt", 201,
                                              SubmitResult(id, userId, graded), request)
                    ELSE /\ req' = [req EXCEPT ![r] =
                                       [pc |-> "findProgress", request |-> request,
                                        lessonId |-> QuizLesson(quiz), graded |-> graded]]
                         /\ UNCHANGED response
    /\ UNCHANGED <<quizzes, progress>>

\* await ProgressModel.findOne, then the attempt number, the push and the bump
SubmitFindProgress(r) ==
    /\ req[r].pc = "findProgress"
    /\ LET c == req[r]
           loaded == LoadProgress(progress, c.request.userId, c.lessonId)
       IN  req' = [req EXCEPT ![r] =
                      [pc |-> "save", request |-> c.request, lessonId |-> c.lessonId,
                       graded |-> c.graded,
                       local |-> RecordAttempt(loaded, c.request.id, c.graded, r)]]
    /\ UNCHANGED <<quizzes, progress, response>>

\* await progress.save(), then the return; a failed save throws, and the
\* controller answers 500
SubmitSave(r) ==
    /\ req[r].pc = "save"
    /\ LET c == req[r]
           key == <<c.request.userId, c.lessonId>>
       IN  IF SaveSucceeds(progress, key, c.local)
           THEN /\ progress' = [progress EXCEPT ![key] = SavedDoc(progress, key, c.local)]
                /\ req' = [req EXCEPT ![r] = Done(201, c.request, c.lessonId)]
                /\ response' = Reply("submitQuizAttempt", 201,
                                     SubmitResult(c.request.id, c.request.userId, c.graded),
                                     c.request)
           ELSE /\ req' = [req EXCEPT ![r] = Done(500, c.request, c.lessonId)]
                /\ response' = Reply("submitQuizAttempt", 500, NoDoc, c.request)
                /\ UNCHANGED progress
    /\ UNCHANGED quizzes

(***************************************************************************)
(* getQuizAnalytics, GET /quizzes/:id/analytics.                           *)
(***************************************************************************)
\* a + b on exact quotients
AddFrac(a, b) == Frac(a.n * b.d + b.n * a.d, a.d * b.d)

\* ProgressModel.find({ 'quizAttempts.quizId': new Types.ObjectId(quizId) })
HoldsAttemptOf(doc, quizOid) ==
    doc # NoDoc /\ \E i \in 1..Len(doc.quizAttempts) : doc.quizAttempts[i].quizId = quizOid

\* record.quizAttempts.filter(attempt => attempt.quizId.toString() === quizId)
\*       .map(attempt => ({ ...attempt, userId: record.userId }))
AttemptsOfRecord(doc, userId, quizId) ==
    LET mine == SelectSeq(doc.quizAttempts, LAMBDA a : OidToString(a.quizId) = quizId)
    IN  [i \in 1..Len(mine) |-> Merge(mine[i], [userId |-> userId])]

\* progressRecords.flatMap(...), over the records the query found
RECURSIVE FlatMapAttempts(_, _, _)
FlatMapAttempts(store, keys, quizId) ==
    IF keys = {} THEN <<>>
    ELSE LET key == CHOOSE k \in keys : TRUE
         IN  (IF HoldsAttemptOf(store[key], ToObjectId(quizId))
              THEN AttemptsOfRecord(store[key], key[1], quizId)
              ELSE <<>>)
             \o FlatMapAttempts(store, keys \ {key}, quizId)

AllAttempts(store, quizId) == FlatMapAttempts(store, ProgressKeys, quizId)

\* mutant of ZeroQuestionStats: no rows
NoQuestionStats(quiz) == <<>>

\* quiz.questions.map(q => ({ questionId: q._id, correctCount: 0, ... }))
ZeroQuestionStats(quiz) ==
    [k \in 1..Len(quiz.questions) |->
        [questionId |-> quiz.questions[k]._id, correctCount |-> 0, attemptCount |-> 0,
         correctPercentage |-> Num(0)]]

\* allAttempts.reduce((sum, a) => sum + a.percentage, 0)
RECURSIVE SumScores(_)
SumScores(attempts) ==
    IF attempts = <<>> THEN Num(0)
    ELSE AddFrac(Head(attempts).percentage, SumScores(Tail(attempts)))

\* allAttempts.flatMap(a => a.answers)
RECURSIVE FlatMapAnswers(_)
FlatMapAnswers(attempts) ==
    IF attempts = <<>> THEN <<>>
    ELSE Head(attempts).answers \o FlatMapAnswers(Tail(attempts))

\* one row of questionStats
QuestionStat(question, attempts) ==
    LET questionAttempts ==
            SelectSeq(FlatMapAnswers(attempts),
                      LAMBDA ans : OidToString(ans.questionId) = OidToString(question._id))
        correctCount == Len(SelectSeq(questionAttempts, LAMBDA ans : ans.isCorrect))
        attemptCount == Len(questionAttempts)
    IN  [questionId |-> question._id, correctCount |-> correctCount,
         attemptCount |-> attemptCount,
         correctPercentage |-> IF attemptCount > 0
                               THEN Frac(correctCount * 100, attemptCount)
                               ELSE Num(0)]

\* what getQuizAnalytics returns for a quiz it found
Analytics(quiz, quizId, allAttempts) ==
    IF allAttempts = <<>>
    THEN [quizId |-> quizId, totalAttempts |-> 0, uniqueStudents |-> 0,
          averageScore |-> Num(0), passRate |-> Num(0),
          questionStats |-> ZeroQuestionStats(quiz)]
    ELSE LET totalAttempts == Len(allAttempts)
             students == {allAttempts[i].userId : i \in 1..Len(allAttempts)}
             sumScores == SumScores(allAttempts)
             passCount == Len(SelectSeq(allAttempts, LAMBDA a : a.passed))
         IN  [quizId |-> quizId,
              totalAttempts |-> totalAttempts,
              uniqueStudents |-> Cardinality(students),
              averageScore |-> Frac(sumScores.n, sumScores.d * totalAttempts),
              passRate |-> Frac(passCount * 100, totalAttempts),
              questionStats |-> [k \in 1..Len(quiz.questions) |->
                                    QuestionStat(quiz.questions[k], allAttempts)]]

\* the getQuizAnalytics controller and service: a read
GetQuizAnalytics(id) ==
    /\ LET request == [id |-> id]
       IN  IF ~CastsToObjectId(id)
           THEN response' = Reply("getQuizAnalytics", 500, NoDoc, request)
           ELSE IF FindQuizById(quizzes, id) = NoDoc
           THEN response' = Reply("getQuizAnalytics", 404, NoDoc, request)
           ELSE response' = Reply("getQuizAnalytics", 200,
                                  Analytics(FindQuizById(quizzes, id), id,
                                            AllAttempts(progress, id)),
                                  request)
    /\ UNCHANGED <<quizzes, progress, req>>

(***************************************************************************)
(* The middlewares of the quiz router: the rate limiter, authenticate and  *)
(* authorize.  A request comes from one client address.                    *)
(***************************************************************************)
GLOBAL_LIMIT == 100
USER_LIMIT == 30
WINDOW_MS == 60 * 1000

\* a request without a usable token: no Bearer header, a token that does not
\* verify, an expired token
NoToken == [token |-> "none"]
BadToken == [token |-> "invalid"]
ExpiredToken == [token |-> "expired"]

\* a token that verifies, with what it decodes to
Token(id, role) == [token |-> "valid", id |-> id, role |-> role]

\* before any request: the clock at 0 and both stores of the limiter empty
NoTraffic ==
    [now |-> 0, globalStore |-> NoDoc, userStore |-> [u \in UserOids |-> NoDoc],
     principal |-> NoDoc, route |-> "none", served |-> 0]

\* mutant of Counted: every request moves the end of the window
CountedSliding(entry, now) ==
    [count |-> (IF entry = NoDoc \/ now > entry.resetTime THEN 0 ELSE entry.count) + 1,
     resetTime |-> now + WINDOW_MS]

\* the limiter on the entry of one key: the window is opened or reopened when
\* there is none or it has passed, then the count goes up
Counted(entry, now) ==
    LET open == IF entry = NoDoc \/ now > entry.resetTime
                THEN [count |-> 0, resetTime |-> now + WINDOW_MS]
                ELSE entry
    IN  [open EXCEPT !.count = @ + 1]

\* authenticate: req.user when the token verifies
Authenticated(principal) == principal.token = "valid"

\* mutant of Authorized: any authenticated user
AuthorizedAnyRole(principal, roles) == Authenticated(principal)

\* authorize(roles): req.user && roles.includes(req.user.role)
Authorized(principal, roles) == Authenticated(principal) /\ principal.role \in roles

\* what the middlewares before validate answer, 0 when they all call next():
\* rateLimiter(false) of router.use, authenticate, authorize(roles) when the
\* route has one, rateLimiter(true) when the route has one
Gate(principal, roles, userLimited) ==
    LET global == Counted(http.globalStore, http.now)
        mine == Counted(http.userStore[principal.id], http.now)
    IN  IF global.count > GLOBAL_LIMIT
        THEN [status |-> 429, globalStore |-> global, userStore |-> http.userStore]
        ELSE IF ~Authenticated(principal)
        THEN [status |-> 401, globalStore |-> global, userStore |-> http.userStore]
        ELSE IF ~Authorized(principal, roles)
        THEN [status |-> 403, globalStore |-> global, userStore |-> http.userStore]
        ELSE IF ~userLimited
        THEN [status |-> 0, globalStore |-> global, userStore |-> http.userStore]
        ELSE [status |-> IF mine.count > USER_LIMIT THEN 429 ELSE 0,
              globalStore |-> global,
              userStore |-> [http.userStore EXCEPT ![principal.id] = mine]]

\* a request on a route: the middlewares, then the handler when they let it through
Route(route, principal, roles, userLimited, request, Handler) ==
    LET gate == Gate(principal, roles, userLimited)
    IN  /\ http' = [http EXCEPT !.globalStore = gate.globalStore,
                                !.userStore = gate.userStore,
                                !.principal = principal,
                                !.route = route,
                                !.served = @ + 1]
        /\ IF gate.status # 0
           THEN /\ response' = Reply(route, gate.status, NoDoc, request)
                /\ UNCHANGED <<quizzes, progress, req>>
           ELSE Handler

TeachingRoles == {"teacher", "admin"}

\* POST /quizzes
PostQuiz(principal, body) ==
    Route("createQuiz", principal, TeachingRoles, TRUE, body,
          CreateQuiz(body, principal.id))

\* PATCH /quizzes/:id
PatchQuiz(principal, id, body) ==
    Route("updateQuiz", principal, TeachingRoles, TRUE, [id |-> id, body |-> body],
          UpdateQuiz(id, body))

\* DELETE /quizzes/:id
DeleteQuizRoute(principal, id) ==
    Route("deleteQuiz", principal, TeachingRoles, TRUE, [id |-> id], DeleteQuiz(id))

\* GET /quizzes/:id/analytics
GetAnalyticsRoute(principal, id) ==
    Route("getQuizAnalytics", principal, TeachingRoles, FALSE, [id |-> id],
          GetQuizAnalytics(id))

\* time passes
Tick(ms) ==
    /\ http' = [http EXCEPT !.now = @ + ms]
    /\ UNCHANGED <<quizzes, progress, req, response>>

(***************************************************************************)
(* Inputs.                                                                 *)
(***************************************************************************)
EmptyObj == [k \in {} |-> TRUE]

T == [isCorrect |-> TRUE]
F == [isCorrect |-> FALSE]

SampleTexts ==
    {<<>>, <<" ">>, <<"a">>, <<"A">>, <<" ", "a">>, <<"a", " ">>, <<" ", "A", " ">>,
     <<"b">>, <<"a", "b">>, <<"A", "B">>, <<"a", " ", "b">>}

PointValues == {0 - 1, 0, 1, 2}

\* question payloads that vary the answer key
WideQuestions ==
    {[type |-> t, options |-> os] : t \in ChoiceTypes, os \in {<<F, T>>, <<T, T>>, <<F, F>>}}
    \cup {[type |-> "fill_blank", correctAnswer |-> key] : key \in SampleTexts}
    \cup {[type |-> "fill_blank"]}

\* question payloads that vary the points
NarrowQuestions ==
    {[type |-> "multiple_choice", options |-> <<F, T>>, points |-> p] : p \in PointValues}
    \cup {[type |-> "fill_blank", correctAnswer |-> <<"a">>, points |-> 1]}

RECURSIVE SeqsOfLen(_, _)
SeqsOfLen(S, n) ==
    IF n = 0 THEN {<<>>}
    ELSE {Append(q, x) : q \in SeqsOfLen(S, n - 1), x \in S}

SeqsUpTo(S, n) == UNION {SeqsOfLen(S, k) : k \in 0..n}

PassingScoreFields == {EmptyObj} \cup {[passingScore |-> p] : p \in {0, 50}}

\* request bodies of POST /quizzes for quizzes without a lesson
GradeBodies ==
    {[questions |-> <<q>>] : q \in WideQuestions}
    \cup {Merge([questions |-> qs], f) :
            qs \in SeqsUpTo(NarrowQuestions, MaxQuestions) \ {<<>>},
            f \in PassingScoreFields}

QuestionOidsUpTo(n) == {Oid("question", k) : k \in 1..n}
\* the ids of the first two options of the first n questions
OptionOidsUpTo(n) == {OptionOid(q, j) : q \in 1..n, j \in 1..2}

AnswerEntry(questionId, selectedOption, answer) ==
    [questionId |-> questionId, selectedOption |-> selectedOption, answer |-> answer]

\* answer entries that vary the selected option and the text, for one question
WideEntries ==
    LET ids == HexStringsOf(QuestionOidsUpTo(1)) \cup {OidToString(GhostOid)}
        options == HexStringsOf(OptionOidsUpTo(1)) \cup {OidToString(GhostOid)}
    IN  {AnswerEntry(i, o, UndefinedText) : i \in ids, o \in options \cup {Undefined}}
        \cup {AnswerEntry(i, Undefined, t) : i \in ids, t \in SampleTexts}
        \cup {AnswerEntry(i, OidToString(OptionOid(1, 2)), <<"a">>) : i \in ids}

\* answer entries for the questions of a longer quiz
NarrowEntries ==
    LET ids == {OidToString(o) : o \in QuestionOidsUpTo(MaxQuestions)}
    IN  {AnswerEntry(OidToString(Oid("question", q)), OidToString(OptionOid(q, j)),
                     UndefinedText) : q \in 1..MaxQuestions, j \in 1..2}
        \cup {AnswerEntry(i, Undefined, t) : i \in ids, t \in {<<"a">>, <<"b">>}}

\* one entry or two, for a quiz of one question
WideSubmissions ==
    {<<e>> : e \in WideEntries} \cup {<<e1, e2>> : e1 \in WideEntries, e2 \in WideEntries}

NarrowSubmissions == SeqsUpTo(NarrowEntries, MaxAnswers)

GradeSubmissions(quiz) ==
    IF quiz # NoDoc /\ Len(quiz.questions) = 1
    THEN WideSubmissions \cup {<<>>}
    ELSE NarrowSubmissions

TeacherId == Oid("user", 1)
NoReply == [op |-> "none"]

(***************************************************************************)
(* SpecGrade: grading as a function of the quiz and the answers.  The      *)
(* store holds one quiz without a lesson, as POST /quizzes stores it.      *)
(***************************************************************************)
StoredQuizzes(bodies) ==
    {d \in {NewQuizDoc(CreateQuizData(ParseQuizBody(b), TeacherId)) :
                b \in {x \in bodies : CreateBodyValid(x)}} : QuizDocValid(d)}

InitGrade ==
    /\ \E doc \in StoredQuizzes(GradeBodies) :
          quizzes = [oid \in QuizOids |-> IF oid = Oid("quiz", 1) THEN doc ELSE NoDoc]
    /\ progress = [key \in ProgressKeys |-> NoDoc]
    /\ req = [r \in Reqs |-> Idle]
    /\ response = NoReply
    /\ http = NoTraffic

NextGrade ==
    /\ req[1] = Idle
    /\ \E answers \in GradeSubmissions(quizzes[Oid("quiz", 1)]) :
          SubmitLoadQuiz(1, OidToString(Oid("quiz", 1)), Oid("user", 1), answers)
    /\ UNCHANGED http

SpecGrade == InitGrade /\ [][NextGrade]_vars

(***************************************************************************)
(* Properties of grading (SpecGrade).                                      *)
(***************************************************************************)
GradedReply == response.op = "submitQuizAttempt" /\ response.status = 201

TheQuiz == quizzes[Oid("quiz", 1)]

\* C5: every graded result has 0 <= score <= totalPoints, and percentage =
\* score/totalPoints*100 when totalPoints > 0, percentage = 0 when totalPoints = 0.
C5_ScoreWithinTotal ==
    GradedReply =>
        LET b == response.body
        IN  /\ 0 <= b.score
            /\ b.score <= b.totalPoints
            /\ b.totalPoints > 0 =>
                   b.percentage.n * b.totalPoints = b.score * 100 * b.percentage.d
            /\ b.totalPoints = 0 => b.percentage.n = 0

\* C6: passed is true exactly when percentage >= the quiz's passingScore.
C6_PassedIffAtLeastPassingScore ==
    GradedReply =>
        LET b == response.body
        IN  b.passed <=> (b.percentage.n >= TheQuiz.passingScore * b.percentage.d)

\* C6 witness: a graded result whose percentage is exactly the passing score
C6_Witness ==
    /\ GradedReply
    /\ response.body.passed
    /\ response.body.percentage = Num(TheQuiz.passingScore)
    /\ TheQuiz.passingScore > 0

\* the entries of a submission sent for a question, and whether an entry selects
\* a correct option of it
EntryFor(entry, question) == entry.questionId = OidToString(question._id)

SelectsCorrectOption(entry, question) ==
    \E j \in 1..Len(question.options) :
        /\ entry.selectedOption = OidToString(question.options[j]._id)
        /\ question.options[j].isCorrect

FirstEntryFor(answers, question) ==
    {i \in 1..Len(answers) :
        /\ EntryFor(answers[i], question)
        /\ \A h \in 1..(i - 1) : ~EntryFor(answers[h], question)}

ChoiceRows ==
    {k \in 1..Len(TheQuiz.questions) : TheQuiz.questions[k].type \in ChoiceTypes}

Core(t) ==
    LET inked == {i \in 1..Len(t) : t[i] # " "}
    IN  IF inked = {} THEN <<>>
        ELSE SubSeq(t, Min(inked), CHOOSE i \in inked : \A h \in inked : h <= i)

SameLetter(c, d) == c = d \/ {c, d} = {"a", "A"} \/ {c, d} = {"b", "B"}

SameTextIgnoringCase(t, u) ==
    Len(t) = Len(u) /\ \A i \in 1..Len(t) : SameLetter(t[i], u[i])

FillRows ==
    {k \in 1..Len(TheQuiz.questions) : TheQuiz.questions[k].type = "fill_blank"}

\* C8: a fill_blank question is graded correct iff the submitted answer text,
\* trimmed and compared without regard to letter case, equals correctAnswer.en
\* treated the same way; anything else earns 0 points, a match earns the points.
C8_FillBlankTrimmedCaseInsensitive ==
    GradedReply =>
        \A k \in FillRows :
            LET q == TheQuiz.questions[k]
                row == response.body.results[k]
                answers == response.request.answers
                match == \E i \in FirstEntryFor(answers, q) :
                            /\ answers[i].answer # UndefinedText
                            /\ q.correctAnswer # UndefinedText
                            /\ SameTextIgnoringCase(Core(answers[i].answer),
                                                    Core(q.correctAnswer))
            IN  /\ row.isCorrect <=> match
                /\ row.points = IF match THEN q.points ELSE 0

\* the submission without the entries sent for other questions than question
OnlyEntriesFor(answers, question) ==
    SelectSeq(answers, LAMBDA e : EntryFor(e, question))

\* C9: grading answers every submission of at least one entry for a stored quiz,
\* with exactly one result per question, in quiz order; a question without an entry
\* is incorrect with 0 points; and the result of a question is what it is when the
\* entries for the other questions are left out.
C9_OneResultPerQuestion ==
    (response.op = "submitQuizAttempt" /\ Len(response.request.answers) >= 1) =>
        /\ response.status = 201
        /\ Len(response.body.results) = Len(TheQuiz.questions)
        /\ \A k \in 1..Len(TheQuiz.questions) :
              LET q == TheQuiz.questions[k]
                  row == response.body.results[k]
                  answers == response.request.answers
              IN  /\ row.questionId = q._id
                  /\ (\A i \in 1..Len(answers) : ~EntryFor(answers[i], q)) =>
                         (~row.isCorrect /\ row.points = 0)
                  /\ row = GradeQuestion(q, OnlyEntriesFor(answers, q))

\* C9 witness: a quiz of two questions, an entry for the second only, and the
\* second graded correct
C9_Witness ==
    /\ GradedReply
    /\ Len(TheQuiz.questions) = 2
    /\ \A i \in 1..Len(response.request.answers) :
          ~EntryFor(response.request.answers[i], TheQuiz.questions[1])
    /\ ~response.body.results[1].isCorrect
    /\ response.body.results[2].isCorrect
    /\ response.body.score > 0

(***************************************************************************)
(* Inputs of the store and recording specifications.                       *)
(***************************************************************************)
TheLesson == Oid("lesson", 1)

Choice(p) == [type |-> "multiple_choice", options |-> <<F, T>>, points |-> p]

\* an entry that selects option o of question q
Pick(q, o) ==
    AnswerEntry(OidToString(Oid("question", q)), OidToString(OptionOid(q, o)),
                UndefinedText)

\* request bodies of POST /quizzes for quizzes of a lesson, two questions of one point
EvenBodies == {[lessonId |-> TheLesson, questions |-> <<Choice(1), Choice(1)>>]}

\* the same with a question of negative points
SkewedBodies == {[lessonId |-> TheLesson, questions |-> <<Choice(2), Choice(0 - 1)>>]}

\* request bodies for a second quiz, of the same lesson or of none
OtherBodies ==
    {[lessonId |-> TheLesson, questions |-> <<Choice(1)>>], [questions |-> <<Choice(1)>>]}

\* submissions: wrong, one right, both right
RecordSubmissions == {<<Pick(1, 1)>>, <<Pick(1, 2)>>, <<Pick(1, 2), Pick(2, 2)>>}

\* and the second right only, and the empty one
SeqSubmissions == RecordSubmissions \cup {<<Pick(2, 2)>>, <<>>}

\* a store of one quiz, or of two
StoresOf(firsts, seconds) ==
    {[oid \in QuizOids |->
         IF oid = Oid("quiz", 1) THEN d1
         ELSE IF oid = Oid("quiz", 2) THEN d2
         ELSE NoDoc] :
        d1 \in StoredQuizzes(firsts), d2 \in StoredQuizzes(seconds) \cup {NoDoc}}

NoneInFlight == \A r \in Reqs : req[r].pc \in {"idle", "done"}

(***************************************************************************)
(* Spec: submissions of several callers running concurrently against a     *)
(* fixed quiz store; the steps of different calls interleave at the awaits.*)
(***************************************************************************)
RecordIds == {OidToString(oid) : oid \in {Oid("quiz", 1), Oid("quiz", 2)}}

Init ==
    /\ quizzes \in StoresOf(EvenBodies, OtherBodies)
    /\ progress = [key \in ProgressKeys |-> NoDoc]
    /\ req = [r \in Reqs |-> Idle]
    /\ response = NoReply
    /\ http = NoTraffic

Next ==
    \/ \E r \in Reqs :
          /\ req[r] = Idle
          /\ \E id \in RecordIds, userId \in UserOids, answers \in RecordSubmissions :
                SubmitLoadQuiz(r, id, userId, answers)
          /\ UNCHANGED http
    \/ \E r \in Reqs : SubmitFindProgress(r) /\ UNCHANGED http
    \/ \E r \in Reqs : SubmitSave(r) /\ UNCHANGED http

Spec == Init /\ [][Next]_vars

(***************************************************************************)
(* SpecSeq: the same calls one after the other: a call starts only when    *)
(* no other is between its awaits.                                         *)
(***************************************************************************)
SeqIds ==
    RecordIds \cup {HexString(Oid("quiz", 1), TRUE), OidToString(GhostOid), MalformedId}

InitSeq ==
    /\ quizzes \in StoresOf(EvenBodies \cup SkewedBodies, OtherBodies)
    /\ progress = [key \in ProgressKeys |-> NoDoc]
    /\ req = [r \in Reqs |-> Idle]
    /\ response = NoReply
    /\ http = NoTraffic

NextSeq ==
    \/ /\ NoneInFlight
       /\ \E r \in Reqs :
             /\ req[r] = Idle
             /\ \E id \in SeqIds, userId \in UserOids, answers \in SeqSubmissions :
                   SubmitLoadQuiz(r, id, userId, answers)
       /\ UNCHANGED http
    \/ \E r \in Reqs : SubmitFindProgress(r) /\ UNCHANGED http
    \/ \E r \in Reqs : SubmitSave(r) /\ UNCHANGED http

SpecSeq == InitSeq /\ [][NextSeq]_vars

(***************************************************************************)
(* SpecStore: the quiz store under POST, PATCH and DELETE /quizzes.        *)
(***************************************************************************)
\* a totalPoints no quiz of the inputs sums to
ForgedTotal == 7

StoreCreateBodies ==
    SkewedBodies
    \cup {[questions |-> <<[type |-> "multiple_choice", options |-> <<F, T>>,
                            explanation |-> <<"a">>]>>,
           totalPoints |-> ForgedTotal],
          [questions |-> <<[type |-> "fill_blank", correctAnswer |-> <<>>]>>],
          [totalPoints |-> ForgedTotal]}

StoreUpdateBodies ==
    {[totalPoints |-> ForgedTotal],
     [questions |-> <<Choice(2)>>, totalPoints |-> ForgedTotal],
     [questions |-> <<Choice(0), [type |-> "fill_blank", correctAnswer |-> <<"a">>,
                                  explanation |-> <<"b">>]>>],
     [questions |-> <<>>],
     [questions |-> <<[type |-> "fill_blank", correctAnswer |-> <<>>]>>]}

StoreIds ==
    {OidToString(oid) : oid \in QuizOids}
    \cup {HexString(Oid("quiz", 1), TRUE), OidToString(GhostOid), MalformedId}

\* the ids of GET /quizzes/:id: the first quiz, no quiz, and a string that is no id
ReadIds == {OidToString(Oid("quiz", 1)), OidToString(GhostOid), MalformedId}

\* queries of GET /quizzes
StoreFilters ==
    {EmptyObj, [isDeleted |-> TRUE], [isActive |-> FALSE], [lessonId |-> TheLesson]}

InitStore ==
    /\ quizzes = [oid \in QuizOids |-> NoDoc]
    /\ progress = [key \in ProgressKeys |-> NoDoc]
    /\ req = [r \in Reqs |-> Idle]
    /\ response = NoReply
    /\ http = NoTraffic

NextStore ==
    \/ \E body \in StoreCreateBodies : CreateQuiz(body, TeacherId) /\ UNCHANGED http
    \/ \E id \in StoreIds, body \in StoreUpdateBodies :
          UpdateQuiz(id, body) /\ UNCHANGED http
    \/ \E id \in StoreIds : DeleteQuiz(id) /\ UNCHANGED http
    \/ \E id \in ReadIds, userRole \in Roles :
          GetQuizById(id, userRole) /\ UNCHANGED http
    \/ \E filter \in StoreFilters : GetAllQuizzes(filter) /\ UNCHANGED http

SpecStore == InitStore /\ [][NextStore]_vars

(***************************************************************************)
(* SpecLife: submissions, deletions and analytics, one call after the      *)
(* other, against a store of two quizzes of one lesson.                    *)
(***************************************************************************)
\* the ids submissions and deletions come with: the two quizzes and no quiz
LifeIds == RecordIds \cup {OidToString(GhostOid)}

\* the ids analytics are asked for: the first quiz, also in upper case, no
\* quiz, and a string that is no id
AnalyticsIds ==
    {HexString(Oid("quiz", 1), upper) : upper \in BOOLEAN}
        \cup {OidToString(GhostOid), MalformedId}

\* for the first quiz one right or both right, else the first right
LifeSubmissions(id) ==
    IF id = OidToString(Oid("quiz", 1))
    THEN {<<Pick(1, 2)>>, <<Pick(1, 2), Pick(2, 2)>>}
    ELSE {<<Pick(1, 2)>>}

InitLife ==
    /\ quizzes \in StoresOf(EvenBodies, {b \in OtherBodies : Has(b, "lessonId")})
    /\ quizzes[Oid("quiz", 2)] # NoDoc
    /\ progress = [key \in ProgressKeys |-> NoDoc]
    /\ req = [r \in Reqs |-> Idle]
    /\ response = NoReply
    /\ http = NoTraffic

NextLife ==
    \/ /\ NoneInFlight
       /\ \E r \in Reqs :
             /\ req[r] = Idle
             /\ \E id \in LifeIds, userId \in UserOids :
                   \E answers \in LifeSubmissions(id) :
                   SubmitLoadQuiz(r, id, userId, answers)
       /\ UNCHANGED http
    \/ \E r \in Reqs : SubmitFindProgress(r) /\ UNCHANGED http
    \/ \E r \in Reqs : SubmitSave(r) /\ UNCHANGED http
    \/ /\ NoneInFlight
       /\ DeleteQuiz(OidToString(Oid("quiz", 1)))
       /\ UNCHANGED http
    \/ /\ NoneInFlight
       /\ \E id \in AnalyticsIds : GetQuizAnalytics(id)
       /\ UNCHANGED http

SpecLife == InitLife /\ [][NextLife]_vars

(***************************************************************************)
(* SpecAuth: requests of anonymous callers, students, teachers and admins  *)
(* on the routes that ask for a role, through the middlewares, against a   *)
(* store of one quiz; the client address and the teacher may have used up  *)
(* all but one request of their window before.                             *)
(***************************************************************************)
Teacher == Token(Oid("user", 1), "teacher")
Admin == Token(Oid("user", 2), "admin")
Student == Token(Oid("user", 2), "student")

Principals == {NoToken, BadToken, ExpiredToken, Teacher, Admin, Student}

AuthIds == {OidToString(Oid("quiz", 1)), OidToString(GhostOid)}

AuthCreateBodies == {[questions |-> <<Choice(1)>>]}

AuthUpdateBodies == {[passingScore |-> 50]}

\* a window opened at time 0 with one request left
AlmostUsedUp(limit) == [count |-> limit - 1, resetTime |-> WINDOW_MS]

InitAuth ==
    /\ quizzes \in StoresOf(EvenBodies, {})
    /\ progress = [key \in ProgressKeys |-> NoDoc]
    /\ req = [r \in Reqs |-> Idle]
    /\ response = NoReply
    /\ \E global \in {NoDoc, AlmostUsedUp(GLOBAL_LIMIT)},
          mine \in {NoDoc, AlmostUsedUp(USER_LIMIT)} :
          http = [NoTraffic EXCEPT !.globalStore = global,
                                   !.userStore = [@ EXCEPT ![Teacher.id] = mine]]

NextAuth ==
    \/ /\ http.served < MaxServed
       /\ \E principal \in Principals, body \in AuthCreateBodies :
             PostQuiz(principal, body)
    \/ /\ http.served < MaxServed
       /\ \E principal \in Principals, id \in AuthIds, body \in AuthUpdateBodies :
             PatchQuiz(principal, id, body)
    \/ /\ http.served < MaxServed
       /\ \E principal \in Principals, id \in AuthIds : DeleteQuizRoute(principal, id)
    \/ /\ http.served < MaxServed
       /\ \E principal \in Principals, id \in AuthIds : GetAnalyticsRoute(principal, id)
    \/ /\ http.now < MaxTicks * (WINDOW_MS \div 2)
       /\ Tick(WINDOW_MS \div 2)

SpecAuth == InitAuth /\ [][NextAuth]_vars

(***************************************************************************)
(* Properties of the recording of attempts (Spec, SpecSeq).                *)
(***************************************************************************)
\* the attempts of a Progress document for one quiz, in stored order
AttemptsFor(doc, quizOid) ==
    SelectSeq(doc.quizAttempts, LAMBDA a : a.quizId = quizOid)

\* the calls that went on to record an attempt for the learner and the quiz,
\* and have returned
RecordingCalls(userId, quizOid) ==
    {r \in Reqs : /\ req[r].pc = "done"
                  /\ req[r].lessonId # Undefined
                  /\ req[r].userId = userId
                  /\ ToObjectId(req[r].id) = quizOid}

\* the stored attempts of the learner for the quiz
StoredAttempts(userId, quizOid) ==
    IF quizzes[quizOid] = NoDoc \/ quizzes[quizOid].lessonId = Undefined
          \/ progress[<<userId, quizzes[quizOid].lessonId>>] = NoDoc
    THEN <<>>
    ELSE AttemptsFor(progress[<<userId, quizzes[quizOid].lessonId>>], quizOid)

\* C1: for a fixed learner and a fixed quiz with a lesson, once the N calls of
\* submitQuizAttempt have returned, the recorded attempts of the quiz are N and
\* carry the attemptNumber values 1..N in stored order, without gap or repeat,
\* whatever the interleaving of the calls' steps.
C1_AttemptNumbersOneToN ==
    NoneInFlight =>
        \A userId \in UserOids, quizOid \in QuizOids :
            LET stored == StoredAttempts(userId, quizOid)
            IN  /\ Len(stored) = Cardinality(RecordingCalls(userId, quizOid))
                /\ \A k \in 1..Len(stored) : stored[k].attemptNumber = k

\* C2: the read of the Progress record and the write take effect as one atomic
\* update: while a call holds what it read and has its save pending, the record is
\* still what it read; and every call that returned a graded result for a quiz
\* with a lesson has its attempt in the record.
C2_ReadAndWriteAtomic ==
    /\ \A r \in Reqs :
          req[r].pc = "save" =>
              progress[<<req[r].request.userId, req[r].lessonId>>] = req[r].local.read
    /\ \A r \in Reqs :
          (req[r].pc = "done" /\ req[r].status = 201 /\ req[r].lessonId # Undefined) =>
              /\ progress[<<req[r].userId, req[r].lessonId>>] # NoDoc
              /\ \E k \in 1..Len(progress[<<req[r].userId, req[r].lessonId>>].quizAttempts) :
                    progress[<<req[r].userId, req[r].lessonId>>].quizAttempts[k].call = r

\* whether best is the maximum of the percentages of the attempts
IsMaxPercentage(best, attempts) ==
    /\ \E k \in 1..Len(attempts) : attempts[k].percentage = best
    /\ \A k \in 1..Len(attempts) : Ge(best, attempts[k].percentage)

\* C3: after submissions of the same learner have run concurrently and all have
\* completed, bestQuizScore of the Progress record equals the maximum percentage
\* over the attempts stored in the record.
C3_BestIsMaxAfterConcurrent ==
    NoneInFlight =>
        \A key \in ProgressKeys :
            progress[key] # NoDoc =>
                IsMaxPercentage(progress[key].bestQuizScore, progress[key].quizAttempts)

\* the two halves of C4
BestIsMax ==
    \A key \in ProgressKeys :
        (progress[key] # NoDoc /\ progress[key].quizAttempts # <<>>) =>
            IsMaxPercentage(progress[key].bestQuizScore, progress[key].quizAttempts)

BestNeverDecreases ==
    \A key \in ProgressKeys :
        progress[key] # NoDoc =>
            /\ progress'[key] # NoDoc
            /\ Ge(progress'[key].bestQuizScore, progress[key].bestQuizScore)

\* C4: after any sequence of sequential submitQuizAttempt calls for a learner and
\* a lesson, bestQuizScore equals the maximum percentage over the attempts in
\* quizAttempts, and bestQuizScore never decreases from one state to the next.
C4_BestIsMaxAndNeverDecreases == []BestIsMax /\ [][BestNeverDecreases]_vars

(***************************************************************************)
(* Properties of the quiz store (SpecStore).                               *)
(***************************************************************************)
RECURSIVE PointsOf(_)
PointsOf(questions) ==
    IF questions = <<>> THEN 0 ELSE Head(questions).points + PointsOf(Tail(questions))

\* C10: after any sequence of createQuiz and updateQuiz calls, every stored quiz
\* has totalPoints equal to the sum of points over its stored questions; and a
\* totalPoints supplied in the payload of a create or an update is not what is
\* stored.
C10_TotalPointsIsSumOfPoints ==
    /\ \A oid \in QuizOids :
          quizzes[oid] # NoDoc => quizzes[oid].totalPoints = PointsOf(quizzes[oid].questions)
    /\ \A oid \in QuizOids :
          quizzes[oid] # NoDoc => quizzes[oid].totalPoints # ForgedTotal

\* C10 witness: an update that carries a totalPoints and no questions has
\* succeeded, and the quiz it returned keeps the sum of its questions' points
C10_Witness ==
    /\ response.op = "updateQuiz"
    /\ response.status = 200
    /\ Has(response.request.body, "totalPoints")
    /\ ~Has(response.request.body, "questions")
    /\ response.body.totalPoints = PointsOf(response.body.questions)
    /\ response.body = quizzes[ToObjectId(response.request.id)]

(***************************************************************************)
(* Properties of the reads and of deletion (SpecStore).                    *)
(***************************************************************************)
\* the stored record a reply about one quiz is about
Addressed == quizzes[ToObjectId(response.request.id)]

AddressedExists ==
    /\ CastsToObjectId(response.request.id)
    /\ ToObjectId(response.request.id) \in QuizOids
    /\ Addressed # NoDoc

\* shown is stored without the keys of dropped, and agrees with it on every key
\* but those of changed
SameButFor(shown, stored, dropped, changed) ==
    /\ DOMAIN shown = (DOMAIN stored) \ dropped
    /\ \A f \in (DOMAIN shown) \ changed : shown[f] = stored[f]

RedactedView ==
    (response.op = "getQuizById" /\ response.status = 200) =>
        LET view == response.body
        IN  /\ response.request.role = "student" =>
                  /\ SameButFor(view, Addressed, {}, {"questions"})
                  /\ Len(view.questions) = Len(Addressed.questions)
                  /\ \A k \in 1..Len(view.questions) :
                        LET q == view.questions[k]
                            stored == Addressed.questions[k]
                        IN  /\ SameButFor(q, stored, {"correctAnswer", "explanation"},
                                          {"options"})
                            /\ Len(q.options) = Len(stored.options)
                            /\ \A j \in 1..Len(q.options) :
                                  SameButFor(q.options[j], stored.options[j],
                                             {"isCorrect"}, {})
            /\ response.request.role \in {"teacher", "admin"} => view = Addressed

ReadsChangeNothing ==
    response'.op \in {"getQuizById", "getAllQuizzes"} =>
        (quizzes' = quizzes /\ progress' = progress)

\* C11: getQuizById for a student returns a view in which no question carries
\* correctAnswer or explanation and no option carries isCorrect (and that is the
\* stored quiz otherwise); for a teacher or an admin it returns the stored quiz
\* with these fields; and getQuizById leaves the stored record unchanged.
C11_StudentViewRedacted == []RedactedView /\ [][ReadsChangeNothing]_vars

\* C11 witness: a student has been shown a quiz that stores an explanation, a
\* correct answer and a correct option
C11_Witness ==
    /\ response.op = "getQuizById"
    /\ response.status = 200
    /\ response.request.role = "student"
    /\ \E k \in 1..Len(Addressed.questions) :
          /\ Addressed.questions[k].explanation # UndefinedText
          /\ Addressed.questions[k].correctAnswer # UndefinedText
    /\ \E k \in 1..Len(Addressed.questions) :
          \E j \in 1..Len(Addressed.questions[k].options) :
             Addressed.questions[k].options[j].isCorrect
    /\ \A k \in 1..Len(response.body.questions) :
          ~Has(response.body.questions[k], "explanation")

\* a quiz that is stored and not soft-deleted
StoredUndeleted(store, id) ==
    /\ CastsToObjectId(id)
    /\ ToObjectId(id) \in QuizOids
    /\ store[ToObjectId(id)] # NoDoc
    /\ ~store[ToObjectId(id)].isDeleted

DeleteStep ==
    response'.op = "deleteQuiz" =>
        LET id == response'.request.id
        IN  /\ progress' = progress
            /\ IF StoredUndeleted(quizzes, id)
               THEN /\ response'.status = 200
                    /\ quizzes' = [quizzes EXCEPT
                                      ![ToObjectId(id)] =
                                          [@ EXCEPT !.isDeleted = TRUE, !.isActive = FALSE]]
               ELSE /\ CastsToObjectId(id) => response'.status = 404
                    /\ quizzes' = quizzes

AfterDeleteNotLive ==
    response.op = "deleteQuiz" => ~StoredUndeleted(quizzes, response.request.id)

AcceptableUpdate(body) ==
    Has(body, "questions") =>
        /\ body.questions # <<>>
        /\ \A k \in 1..Len(body.questions) :
              Has(body.questions[k], "correctAnswer") =>
                  body.questions[k].correctAnswer # <<>>

\* C14: after any sequence of create, update and delete operations,
\* getAllQuizzes returns no quiz with isDeleted = true, whatever the filter;
\* getQuizById on a soft-deleted quiz reports Not Found for every role; and
\* updateQuiz on a soft-deleted quiz returns no quiz and reports Not Found.
C14_DeletedQuizzesHidden ==
    /\ response.op = "getAllQuizzes" =>
          \A k \in 1..Len(response.body) : ~response.body[k].isDeleted
    /\ (response.op = "getQuizById" /\ AddressedExists /\ Addressed.isDeleted) =>
          (response.status = 404 /\ response.body = NoDoc)
    /\ (response.op = "updateQuiz" /\ AddressedExists /\ Addressed.isDeleted) =>
          /\ response.status # 200
          /\ response.body = NoDoc
          /\ AcceptableUpdate(response.request.body) => response.status = 404

\* C14 witness: a listing asked for the deleted quizzes of a store that holds a
\* deleted quiz and another one, and shows only the other
C14_Witness ==
    /\ response.op = "getAllQuizzes"
    /\ response.request.filter = [isDeleted |-> TRUE]
    /\ \E oid \in QuizOids : quizzes[oid] # NoDoc /\ quizzes[oid].isDeleted
    /\ Len(response.body) >= 1

(***************************************************************************)
(* Properties of submissions and analytics over a quiz's life (SpecLife,   *)
(* SpecSeq).                                                               *)
(***************************************************************************)
\* the id a call came with
CallId(c) == IF c.pc = "done" THEN c.id ELSE c.request.id

\* a quiz that is stored and soft-deleted
SoftDeleted(store, id) ==
    /\ CastsToObjectId(id)
    /\ ToObjectId(id) \in QuizOids
    /\ store[ToObjectId(id)] # NoDoc
    /\ store[ToObjectId(id)].isDeleted

\* a call that starts on a soft-deleted quiz is answered at once, and not with
\* a result
RefusedWhenDeleted ==
    \A r \in Reqs :
        (req[r] = Idle /\ req'[r] # Idle /\ SoftDeleted(quizzes, CallId(req'[r]))) =>
            (req'[r].pc = "done" /\ req'[r].status \notin {200, 201})

\* no call for a soft-deleted quiz writes to a Progress record
NothingRecordedWhenDeleted ==
    \A r \in Reqs :
        (req[r].pc = "save" /\ SoftDeleted(quizzes, req[r].request.id)) =>
            progress' = progress

\* C13: once a quiz has been soft-deleted, every later submitQuizAttempt for it
\* is refused and appends no attempt to any Progress record.
C13_DeletedQuizRefusesAttempts ==
    [][RefusedWhenDeleted /\ NothingRecordedWhenDeleted]_vars

\* a stored quiz without a lesson
Lessonless(store, id) ==
    /\ CastsToObjectId(id)
    /\ ToObjectId(id) \in QuizOids
    /\ store[ToObjectId(id)] # NoDoc
    /\ store[ToObjectId(id)].lessonId = Undefined

\* a call for a quiz without a lesson that the request schema lets through
\* ends at once with a result for each question, and writes nothing
LessonlessGradedOnly ==
    \A r \in Reqs :
        (/\ req[r] = Idle
         /\ req'[r] # Idle
         /\ Lessonless(quizzes, CallId(req'[r]))
         /\ ~(req'[r].pc = "done" /\ req'[r].status = 400)) =>
            /\ req'[r].pc = "done"
            /\ req'[r].status = 201
            /\ response'.op = "submitQuizAttempt"
            /\ response'.status = 201
            /\ response'.body.quizId = CallId(req'[r])
            /\ Len(response'.body.results) =
                  Len(quizzes[ToObjectId(CallId(req'[r]))].questions)
            /\ Has(response'.body, "score") /\ Has(response'.body, "percentage")
            /\ Has(response'.body, "passed")
            /\ progress' = progress
            /\ quizzes' = quizzes

\* only a call for a quiz of a lesson changes a Progress record
OnlyLessonQuizzesRecord ==
    progress' # progress =>
        \E r \in Reqs :
            /\ req[r].pc = "save"
            /\ ~Lessonless(quizzes, req[r].request.id)
            /\ \A key \in ProgressKeys :
                  progress'[key] # progress[key] =>
                      key = <<req[r].request.userId,
                              quizzes[ToObjectId(req[r].request.id)].lessonId>>

\* C15: submitQuizAttempt for a quiz that has no lessonId returns a graded
\* result and leaves the set of Progress records and every Progress record's
\* contents unchanged.
C15_LessonlessQuizNotRecorded ==
    [][LessonlessGradedOnly /\ OnlyLessonQuizzesRecord]_vars

\* C15 witness: a correct submission for a quiz without a lesson has been
\* graded while a Progress record of an earlier submission is stored
C15_Witness ==
    /\ response.op = "submitQuizAttempt"
    /\ response.status = 201
    /\ Lessonless(quizzes, response.request.id)
    /\ response.body.score > 0
    /\ \E key \in ProgressKeys :
          progress[key] # NoDoc /\ Len(progress[key].quizAttempts) >= 1
    /\ \A key \in ProgressKeys :
          progress[key] # NoDoc =>
              \A i \in 1..Len(progress[key].quizAttempts) :
                  progress[key].quizAttempts[i].quizId # ToObjectId(response.request.id)

\* where the store holds the attempts for a quiz: the record and the position
AttemptPlaces(quizOid) ==
    {place \in ProgressKeys \X (1..MaxReqs) :
        /\ progress[place[1]] # NoDoc
        /\ place[2] <= Len(progress[place[1]].quizAttempts)
        /\ progress[place[1]].quizAttempts[place[2]].quizId = quizOid}

AttemptAt(place) == progress[place[1]].quizAttempts[place[2]]

\* an analytics reply for a stored quiz
AnalyticsFor == response.op = "getQuizAnalytics" /\ AddressedExists

ZeroRow(row, question) ==
    /\ row.questionId = question._id
    /\ row.correctCount = 0
    /\ row.attemptCount = 0
    /\ row.correctPercentage = Num(0)

\* C16: getQuizAnalytics for a stored quiz for which no Progress record holds
\* an attempt signals no error and returns totalAttempts = 0, averageScore = 0,
\* passRate = 0 and exactly one stat row per question of the quiz, each with
\* correctCount = 0, attemptCount = 0 and correctPercentage = 0.
C16_NoAttemptsAllZero ==
    (AnalyticsFor /\ AttemptPlaces(ToObjectId(response.request.id)) = {}) =>
        /\ response.status = 200
        /\ response.body.totalAttempts = 0
        /\ response.body.uniqueStudents = 0
        /\ response.body.averageScore = Num(0)
        /\ response.body.passRate = Num(0)
        /\ Len(response.body.questionStats) = Len(Addressed.questions)
        /\ \A k \in 1..Len(Addressed.questions) :
              ZeroRow(response.body.questionStats[k], Addressed.questions[k])

\* C16 witness: analytics of a quiz of two questions without attempts, while
\* the other quiz has attempts
C16_Witness ==
    /\ AnalyticsFor
    /\ response.status = 200
    /\ AttemptPlaces(ToObjectId(response.request.id)) = {}
    /\ \E oid \in QuizOids : AttemptPlaces(oid) # {}
    /\ Len(response.body.questionStats) = 2

\* the sum of the percentages of the attempts at places
RECURSIVE SumOfPercentages(_)
SumOfPercentages(places) ==
    IF places = {} THEN Num(0)
    ELSE LET place == CHOOSE x \in places : TRUE
             rest == SumOfPercentages(places \ {place})
             p == AttemptAt(place).percentage
         IN  [n |-> p.n * rest.d + rest.n * p.d, d |-> p.d * rest.d]

\* equality of quotients, whatever their terms
SameNumber(a, b) == a.n * b.d = b.n * a.d

\* C17: after any sequence of recorded submissions, getQuizAnalytics(quizId)
\* returns totalAttempts = the number of stored attempts for that quiz over all
\* learners' Progress records (attempts for other quizzes not counted),
\* uniqueStudents = the number of learners with such an attempt, averageScore =
\* the mean of these attempts' percentage, and passRate = the number of these
\* attempts that passed / totalAttempts * 100.
C17_AnalyticsTotals ==
    AnalyticsFor =>
        LET places == AttemptPlaces(ToObjectId(response.request.id))
            total == Cardinality(places)
            sum == SumOfPercentages(places)
            passCount == Cardinality({place \in places : AttemptAt(place).passed})
        IN  /\ response.status = 200
            /\ response.body.totalAttempts = total
            /\ response.body.uniqueStudents =
                  Cardinality({place[1][1] : place \in places})
            /\ total > 0 =>
                  /\ SameNumber(response.body.averageScore,
                                [n |-> sum.n, d |-> sum.d * total])
                  /\ SameNumber(response.body.passRate,
                                [n |-> passCount * 100, d |-> total])

\* the answer rows stored for a question over the attempts at places
AnswerPlaces(places, questionOid) ==
    {row \in places \X (1..MaxQuestions) :
        /\ row[2] <= Len(AttemptAt(row[1]).answers)
        /\ AttemptAt(row[1]).answers[row[2]].questionId = questionOid}

AnswerAt(row) == AttemptAt(row[1]).answers[row[2]]

\* C18: for every question of the quiz, getQuizAnalytics reports attemptCount =
\* the number of stored answer rows for that question over all attempts of the
\* quiz, correctCount = how many of these rows are correct (so correctCount <=
\* attemptCount), and correctPercentage = correctCount / attemptCount * 100, or
\* 0 when attemptCount = 0.
C18_AnalyticsPerQuestion ==
    AnalyticsFor =>
        /\ response.status = 200
        /\ Len(response.body.questionStats) = Len(Addressed.questions)
        /\ \A k \in 1..Len(Addressed.questions) :
              LET rows == AnswerPlaces(AttemptPlaces(ToObjectId(response.request.id)),
                                       Addressed.questions[k]._id)
                  correct == Cardinality({row \in rows : AnswerAt(row).isCorrect})
                  stat == response.body.questionStats[k]
              IN  /\ stat.questionId = Addressed.questions[k]._id
                  /\ stat.attemptCount = Cardinality(rows)
                  /\ stat.correctCount = correct
                  /\ stat.correctCount <= stat.attemptCount
                  /\ IF stat.attemptCount = 0
                     THEN stat.correctPercentage = Num(0)
                     ELSE SameNumber(stat.correctPercentage,
                                     [n |-> correct * 100, d |-> Cardinality(rows)])

\* a reply that signals Quiz not found and carries no result
NotFoundReply == response.status = 404 /\ response.body = NoDoc

\* the reply to a call for an id that casts and names no stored quiz
NotInStoreRefused ==
    (/\ response.op \in {"submitQuizAttempt", "getQuizAnalytics"}
     /\ CastsToObjectId(response.request.id)
     /\ ~AddressedExists
     /\ response.op = "submitQuizAttempt" => response.request.answers # <<>>) =>
        NotFoundReply

\* such a call changes neither a quiz nor a Progress record, and ends at once
NotInStoreChangesNothing ==
    /\ \A r \in Reqs :
          (/\ req[r] = Idle
           /\ req'[r] # Idle
           /\ CastsToObjectId(CallId(req'[r]))
           /\ ~(/\ ToObjectId(CallId(req'[r])) \in QuizOids
                /\ quizzes[ToObjectId(CallId(req'[r]))] # NoDoc)) =>
              /\ req'[r].pc = "done"
              /\ req'[r].status \in {400, 404}
              /\ quizzes' = quizzes
              /\ progress' = progress
    /\ response'.op = "getQuizAnalytics" => (quizzes' = quizzes /\ progress' = progress)

RequestStep == http'.served # http.served

\* the request was answered status by a middleware: no body, and neither the
\* quizzes, nor the Progress records, nor the calls in flight, nor the
\* limiter's store of the users changed
RefusedWith(status) ==
    /\ response'.op = http'.route
    /\ response'.status = status
    /\ response'.body = NoDoc
    /\ quizzes' = quizzes
    /\ progress' = progress
    /\ req' = req
    /\ http'.userStore = http.userStore

RoleGuard ==
    (RequestStep /\ http'.globalStore.count <= GLOBAL_LIMIT) =>
        /\ http'.principal.token # "valid" => RefusedWith(401)
        /\ (http'.principal.token = "valid"
            /\ http'.principal.role \notin {"teacher", "admin"}) => RefusedWith(403)

\* C20: a request for quiz analytics, creation, update or deletion that the
\* router's limiter of the client address lets through is answered 403 when its
\* principal's role is not teacher or admin, and 401 when it carries no valid
\* token (so before any role check); in both cases no service operation runs
\* and no state of the quiz service changes.
C20_RoleGuardBeforeService == [][RoleGuard]_vars

\* C20 witness: a student's request to delete a stored, live quiz was answered
\* 403 and the quiz is still live
C20_Witness ==
    /\ response.op = "deleteQuiz"
    /\ response.status = 403
    /\ http.principal = Student
    /\ StoredUndeleted(quizzes, response.request.id)

(***************************************************************************)
(* C21: quizAttempts only grows, one attempt per successful submission.    *)
(***************************************************************************)
IsPrefix(s, t) == Len(s) <= Len(t) /\ \A i \in 1..Len(s) : t[i] = s[i]

AttemptsOf(store, key) == IF store[key] = NoDoc THEN <<>> ELSE store[key].quizAttempts

\* call r returns successfully from a submission for a quiz of a lesson in this step
SubmissionRecorded(r) ==
    /\ req[r].pc = "save"
    /\ req'[r].pc = "done"
    /\ req'[r].status = 201

AttemptsAppendOnlyStep ==
    /\ \A key \in ProgressKeys :
          /\ progress[key] # NoDoc => progress'[key] # NoDoc
          /\ IsPrefix(AttemptsOf(progress, key), AttemptsOf(progress', key))
    /\ \A r \in Reqs :
          SubmissionRecorded(r) =>
             LET key == <<req[r].request.userId, req[r].lessonId>>
                 after == AttemptsOf(progress', key)
             IN  /\ Len(after) = Len(AttemptsOf(progress, key)) + 1
                 /\ after[Len(after)].call = r
                 /\ \A other \in ProgressKeys \ {key} : progress'[other] = progress[other]
    /\ (\A r \in Reqs : ~SubmissionRecorded(r)) => progress' = progress

\* C21: in every step, every Progress record that exists still exists after the
\* step and its quizAttempts before the step is a prefix of its quizAttempts
\* after it; a step in which a submission for a quiz of a lesson returns
\* successfully appends exactly one attempt, its own, to exactly one record; no
\* other step changes any record
C21_AttemptsAppendOnly == [][AttemptsAppendOnlyStep]_vars

\* two calls of one student that overlapped have both been recorded, one after
\* the other, in the record the first of them created
C21_Witness ==
    \E key \in ProgressKeys :
       /\ progress[key] # NoDoc
       /\ Len(progress[key].quizAttempts) >= 2
       /\ \E i, j \in 1..Len(progress[key].quizAttempts) :
             /\ i < j
             /\ progress[key].quizAttempts[i].call > progress[key].quizAttempts[j].call
       /\ response.op = "submitQuizAttempt" /\ response.status = 201

(***************************************************************************)
(* C22: one Progress record per learner and lesson.                        *)
(***************************************************************************)
\* the insert of call r's new document is accepted in this step
InsertAccepted(r) ==
    /\ req[r].pc = "save"
    /\ req[r].local.isNew
    /\ req'[r].pc = "done"
    /\ req'[r].status = 201

OneRecordPerLearnerAndLessonStep ==
    /\ \A r \in Reqs :
          InsertAccepted(r) =>
             LET key == <<req[r].request.userId, req[r].lessonId>>
             IN  /\ progress[key] = NoDoc
                 /\ req[r].local.read = NoDoc
                 /\ Len(progress'[key].quizAttempts) = 1
                 /\ progress'[key].quizAttempts[1].call = r
    /\ \A key \in ProgressKeys :
          (progress[key] = NoDoc /\ progress'[key] # NoDoc) =>
             \E r \in Reqs : /\ InsertAccepted(r)
                             /\ key = <<req[r].request.userId, req[r].lessonId>>
    /\ \A r \in Reqs :
          (req[r].pc = "findProgress" /\ req'[r].pc = "save") =>
             LET key == <<req[r].request.userId, req[r].lessonId>>
             IN  progress[key] # NoDoc =>
                    /\ ~req'[r].local.isNew
                    /\ req'[r].local.read = progress[key]
    /\ \A r \in Reqs :
          (SubmissionRecorded(r) /\ ~req[r].local.isNew) =>
             LET key == <<req[r].request.userId, req[r].lessonId>>
             IN  /\ progress[key] # NoDoc
                 /\ Len(progress'[key].quizAttempts) = Len(progress[key].quizAttempts) + 1

\* C22: a Progress document is inserted only by a submission for a quiz of the
\* lesson, only while no record exists for that learner and lesson, and holds
\* exactly that submission's attempt; a submission that finds the record works
\* on it and its save extends it instead of inserting another one
C22_OneRecordPerLearnerAndLesson == [][OneRecordPerLearnerAndLessonStep]_vars

\* the record of a learner was created by one call and extended by another, and
\* an overlapping call's insert for the same learner and lesson was refused
C22_Witness ==
    \E key \in ProgressKeys :
       /\ progress[key] # NoDoc
       /\ Len(progress[key].quizAttempts) = 2
       /\ \E r \in Reqs :
             /\ req[r].pc = "done"
             /\ req[r].status = 500
             /\ <<req[r].userId, req[r].lessonId>> = key

(***************************************************************************)
(* SpecScan: analytics calls running concurrently with submissions.  A     *)
(* call slot holds a submission or an analytics call; getQuizAnalytics has *)
(* two awaits, QuizModel.findById and ProgressModel.find, and the steps of *)
(* other calls interleave between them.                                    *)
(***************************************************************************)
\* a finished analytics call
ScanDone(status, id) == [pc |-> "done", status |-> status, id |-> id, scan |-> TRUE]

\* the call (controller), await QuizModel.findById, and the throw when the
\* quiz is not found
AnalyticsLoadQuiz(r, id) ==
    /\ req[r] = Idle
    /\ \A p \in 1..(r - 1) : req[p] # Idle
    /\ LET request == [id |-> id]
       IN  IF ~CastsToObjectId(id)
           THEN /\ req' = [req EXCEPT ![r] = ScanDone(500, id)]
                /\ response' = Reply("getQuizAnalytics", 500, NoDoc, request)
           ELSE IF FindQuizById(quizzes, id) = NoDoc
           THEN /\ req' = [req EXCEPT ![r] = ScanDone(404, id)]
                /\ response' = Reply("getQuizAnalytics", 404, NoDoc, request)
           ELSE /\ req' = [req EXCEPT ![r] =
                              [pc |-> "scan", id |-> id,
                               quiz |-> FindQuizById(quizzes, id)]]
                /\ UNCHANGED response
    /\ UNCHANGED <<quizzes, progress>>

\* await ProgressModel.find(...).lean(), the aggregation and the return
AnalyticsScan(r) ==
    /\ req[r].pc = "scan"
    /\ LET c == req[r]
       IN  /\ response' = Reply("getQuizAnalytics", 200,
                                Analytics(c.quiz, c.id, AllAttempts(progress, c.id)),
                                [id |-> c.id])
           /\ req' = [req EXCEPT ![r] = ScanDone(200, c.id)]
    /\ UNCHANGED <<quizzes, progress>>

\* the quiz of the lesson, addressed in either case of the hexadecimal digits
ScanSubmitIds == {HexString(Oid("quiz", 1), upper) : upper \in BOOLEAN}

ScanSubmissions == {<<Pick(1, 1)>>, <<Pick(1, 2), Pick(2, 2)>>}

InitScan ==
    /\ quizzes \in StoresOf(EvenBodies, {})
    /\ progress = [key \in ProgressKeys |-> NoDoc]
    /\ req = [r \in Reqs |-> Idle]
    /\ response = NoReply
    /\ http = NoTraffic

NextScan ==
    \/ \E r \in Reqs :
          /\ req[r] = Idle
          /\ \E id \in ScanSubmitIds, userId \in UserOids, answers \in ScanSubmissions :
                SubmitLoadQuiz(r, id, userId, answers)
          /\ UNCHANGED http
    \/ \E r \in Reqs : SubmitFindProgress(r) /\ UNCHANGED http
    \/ \E r \in Reqs : SubmitSave(r) /\ UNCHANGED http
    \/ \E r \in Reqs :
          /\ req[r] = Idle
          /\ \E id \in AnalyticsIds : AnalyticsLoadQuiz(r, id)
          /\ UNCHANGED http
    \/ \E r \in Reqs : AnalyticsScan(r) /\ UNCHANGED http

SpecScan == InitScan /\ [][NextScan]_vars

(***************************************************************************)
(* C23: analytics as a reader next to concurrent submissions.              *)
(***************************************************************************)
\* call r is an analytics call that takes a step
AnalyticsStarts(r) == req[r] = Idle /\ req'[r] # Idle /\ ~Has(req'[r], "request")
ScanReturns(r) == req[r].pc = "scan" /\ req'[r].pc = "done"

\* an analytics step writes neither store
ScanReadOnlyStep ==
    \A r \in Reqs :
       (AnalyticsStarts(r) \/ ScanReturns(r)) =>
          quizzes' = quizzes /\ progress' = progress

\* every submission between its awaits can take its next step, whatever the
\* analytics calls in flight are doing
ScanNeverBlocks ==
    \A r \in Reqs :
       /\ req[r].pc = "findProgress" => ENABLED SubmitFindProgress(r)
       /\ req[r].pc = "save" => ENABLED SubmitSave(r)

\* the totals returned are those of the attempts of the quiz in the store at
\* the moment of the scan
ScanConsistentStep ==
    \A r \in Reqs :
       ScanReturns(r) =>
          LET places == AttemptPlaces(ToObjectId(req[r].id))
          IN  /\ response'.status = 200
              /\ response'.body.totalAttempts = Cardinality(places)
              /\ response'.body.uniqueStudents =
                    Cardinality({place[1][1] : place \in places})

\* the same for ids given as the stored id prints
ScanConsistentForPrintedIdStep ==
    \A r \in Reqs :
       (ScanReturns(r) /\ req[r].id = OidToString(ToObjectId(req[r].id))) =>
          LET places == AttemptPlaces(ToObjectId(req[r].id))
          IN  /\ response'.body.totalAttempts = Cardinality(places)
              /\ response'.body.uniqueStudents =
                    Cardinality({place[1][1] : place \in places})

ScanReadOnlyAndNeverBlocks == []ScanNeverBlocks /\ [][ScanReadOnlyStep]_vars
ScanConsistentForPrintedId == [][ScanConsistentForPrintedIdStep]_vars

\* C23: getQuizAnalytics changes no Quiz and no Progress record, never keeps a
\* concurrent submission from taking its next step, and the statistics it
\* returns while submissions run are those of the attempts of the quiz present
\* in the store at a moment of its execution, the moment of its scan
C23_AnalyticsSnapshot ==
    /\ []ScanNeverBlocks
    /\ [][ScanReadOnlyStep /\ ScanConsistentStep]_vars

(***************************************************************************)
(* C24: the graded outcome depends on the quiz and the answers only.       *)
(***************************************************************************)
\* what was answered, as far as the rows tell: per question the option selected
\* and the text given
GivenOf(rows) ==
    [k \in 1..Len(rows) |-> <<rows[k].questionId, rows[k].selectedOption, rows[k].answer>>]

\* the graded outcome
OutcomeOf(x, rows) ==
    [score |-> x.score, totalPoints |-> x.totalPoints, percentage |-> x.percentage,
     passed |-> x.passed,
     marks |-> [k \in 1..Len(rows) |-> <<rows[k].isCorrect, rows[k].points>>]]

\* the gradings on record: the stored attempts of all learners, and the result
\* returned last
Gradings ==
    {[quiz |-> AttemptAt(place).quizId,
      given |-> GivenOf(AttemptAt(place).answers),
      outcome |-> OutcomeOf(AttemptAt(place), AttemptAt(place).answers)] :
        place \in {p \in ProgressKeys \X (1..MaxReqs) :
                      /\ progress[p[1]] # NoDoc
                      /\ p[2] <= Len(progress[p[1]].quizAttempts)}}
    \cup (IF response.op = "submitQuizAttempt" /\ response.status = 201
          THEN {[quiz |-> ToObjectId(response.body.quizId),
                 given |-> GivenOf(response.body.results),
                 outcome |-> OutcomeOf(response.body, response.body.results)]}
          ELSE {})

\* C24: any two gradings of the same quiz with the same answers, whoever the
\* learners are and whatever their records held before, have the same score,
\* totalPoints, percentage, passed and per-question isCorrect and points
C24_GradingDependsOnQuizAndAnswersOnly ==
    \A a, b \in Gradings :
       (a.quiz = b.quiz /\ a.given = b.given) => a.outcome = b.outcome

\* two learners hold an attempt of the same quiz with the same answers, one as
\* a first and one as a second attempt, with different best scores on record
C24_Witness ==
    \E p, q \in ProgressKeys \X (1..MaxReqs) :
       /\ p[1] # q[1]
       /\ progress[p[1]] # NoDoc /\ progress[q[1]] # NoDoc
       /\ p[2] <= Len(progress[p[1]].quizAttempts)
       /\ q[2] <= Len(progress[q[1]].quizAttempts)
       /\ AttemptAt(p).quizId = AttemptAt(q).quizId
       /\ GivenOf(AttemptAt(p).answers) = GivenOf(AttemptAt(q).answers)
       /\ AttemptAt(p).attemptNumber # AttemptAt(q).attemptNumber
       /\ progress[p[1]].bestQuizScore # progress[q[1]].bestQuizScore
       /\ AttemptAt(p).score > 0

(***************************************************************************)
(* C25: an entry without the field its question needs.                     *)
(***************************************************************************)
\* the entry graded for question q lacks the field the type of q needs
LacksNeededField(entry, q) ==
    \/ q.type \in ChoiceTypes /\ entry.selectedOption = Undefined
    \/ q.type = "fill_blank" /\ entry.answer = UndefinedText

\* C25: whenever the entry graded for a question carries no selectedOption
\* (choice-type question) or no answer text (fill_blank question), the result
\* of that question is incorrect with 0 points, whatever the stored quiz is,
\* a fill_blank question stored without correctAnswer included
C25_EntryWithoutNeededFieldIncorrect ==
    GradedReply =>
        \A k \in 1..Len(TheQuiz.questions) :
            LET q == TheQuiz.questions[k]
                answers == response.request.answers
            IN  \A i \in FirstEntryFor(answers, q) :
                   LacksNeededField(answers[i], q) =>
                      /\ ~response.body.results[k].isCorrect
                      /\ response.body.results[k].points = 0

\* the same for every question but a fill_blank one stored without correctAnswer
EntryWithoutNeededFieldIncorrectWhenKeyed ==
    GradedReply =>
        \A k \in 1..Len(TheQuiz.questions) :
            LET q == TheQuiz.questions[k]
                answers == response.request.answers
            IN  \A i \in FirstEntryFor(answers, q) :
                   (/\ LacksNeededField(answers[i], q)
                    /\ ~(q.type = "fill_blank" /\ q.correctAnswer = UndefinedText)) =>
                      /\ ~response.body.results[k].isCorrect
                      /\ response.body.results[k].points = 0

(***************************************************************************)
(* SpecFlags: submissions one after the other against a quiz created with  *)
(* attemptsAllowed and showCorrectAnswers set or left to their defaults.   *)
(***************************************************************************)
\* a choice question with an explanation
Explained(p) == Merge(Choice(p), [explanation |-> <<"a">>])

FlagFields ==
    {Merge(a, s) : a \in {EmptyObj, [attemptsAllowed |-> 0], [attemptsAllowed |-> 1]},
                   s \in {EmptyObj, [showCorrectAnswers |-> FALSE]}}

\* request bodies of POST /quizzes: a quiz of the lesson, its first question explained
FlagBodies ==
    {Merge([lessonId |-> TheLesson, questions |-> <<Explained(1), Choice(1)>>], f) :
        f \in FlagFields}

FlagIds == {OidToString(Oid("quiz", 1))}

FlagSubmissions == {<<Pick(1, 1)>>, <<Pick(1, 2), Pick(2, 2)>>}

InitFlags ==
    /\ quizzes \in StoresOf(FlagBodies, {})
    /\ progress = [key \in ProgressKeys |-> NoDoc]
    /\ req = [r \in Reqs |-> Idle]
    /\ response = NoReply
    /\ http = NoTraffic

NextFlags ==
    \/ /\ NoneInFlight
       /\ \E r \in Reqs :
             /\ req[r] = Idle
             /\ \E id \in FlagIds, userId \in UserOids, answers \in FlagSubmissions :
                   SubmitLoadQuiz(r, id, userId, answers)
       /\ UNCHANGED http
    \/ \E r \in Reqs : SubmitFindProgress(r) /\ UNCHANGED http
    \/ \E r \in Reqs : SubmitSave(r) /\ UNCHANGED http

SpecFlags == InitFlags /\ [][NextFlags]_vars

(***************************************************************************)
(* C26: attemptsAllowed.                                                   *)
(***************************************************************************)
\* the number of attempts for the quiz in the record at key
AttemptCount(key, quizOid) ==
    Cardinality({place \in AttemptPlaces(quizOid) : place[1] = key})

\* C26: for a stored quiz with attemptsAllowed = k >= 0 no learner's Progress
\* record holds more than k attempts for that quiz
C26_AttemptsWithinAllowed ==
    \A oid \in QuizOids :
       (quizzes[oid] # NoDoc /\ quizzes[oid].attemptsAllowed >= 0) =>
          \A key \in ProgressKeys :
             AttemptCount(key, oid) <= quizzes[oid].attemptsAllowed

(***************************************************************************)
(* C28: explanations in the result returned to the learner.                *)
(***************************************************************************)
\* the quiz a graded result is for
ResultQuiz == quizzes[ToObjectId(response.body.quizId)]

ResultReturned == response.op = "submitQuizAttempt" /\ response.status = 201

\* C28: the result returned by submitQuizAttempt for a quiz whose
\* showCorrectAnswers flag is false carries no explanation in any row; with the
\* flag true a row carries the explanation of its question
C28_ExplanationOnlyWhenShown ==
    ResultReturned =>
        \A k \in 1..Len(response.body.results) :
            response.body.results[k].explanation =
                IF ResultQuiz.showCorrectAnswers
                THEN ResultQuiz.questions[k].explanation
                ELSE UndefinedText

\* the half that concerns quizzes with the flag true
ExplanationCarriedWhenShown ==
    (ResultReturned /\ ResultQuiz.showCorrectAnswers) =>
        \A k \in 1..Len(response.body.results) :
            response.body.results[k].explanation = ResultQuiz.questions[k].explanation

(***************************************************************************)
(* C27: attempt numbers of the quizzes that share a Progress record.       *)
(***************************************************************************)
\* the attempt the save of call r appended
Appended(r) ==
    LET after == progress'[<<req[r].request.userId, req[r].lessonId>>].quizAttempts
    IN  after[Len(after)]

AttemptNumberedPerQuizStep ==
    \A r \in Reqs :
       SubmissionRecorded(r) =>
          LET key == <<req[r].request.userId, req[r].lessonId>>
              oid == ToObjectId(req[r].request.id)
          IN  /\ Appended(r).quizId = oid
              /\ Appended(r).attemptNumber = AttemptCount(key, oid) + 1

\* C27: with submissions made one after the other, the attempt a submission
\* appends has attemptNumber = 1 + the number of attempts with the same quizId
\* the record held before, whatever attempts for other quizzes of the lesson
\* lie in between
C27_AttemptNumberedPerQuiz == [][AttemptNumberedPerQuizStep]_vars

\* the same for submissions whose id is written as the stored id prints
AttemptNumberedPerQuizForPrintedId ==
    [][\A r \in Reqs :
          (/\ SubmissionRecorded(r)
           /\ req[r].request.id = OidToString(ToObjectId(req[r].request.id))) =>
             Appended(r).attemptNumber =
                AttemptCount(<<req[r].request.userId, req[r].lessonId>>,
                             ToObjectId(req[r].request.id)) + 1]_vars

(***************************************************************************)
(* C29: what a question contributes to the score.                          *)
(***************************************************************************)
\* what row k adds to score
Contribution(row) == IF row.isCorrect THEN row.points ELSE 0

RECURSIVE SumContributions(_)
SumContributions(rows) ==
    IF rows = <<>> THEN 0
    ELSE Contribution(Head(rows)) + SumContributions(Tail(rows))

\* the entries of a submission that name a question of the quiz
EntriesForQuiz(answers, quiz) ==
    SelectSeq(answers,
              LAMBDA e : \E k \in 1..Len(quiz.questions) : EntryFor(e, quiz.questions[k]))

\* score is the sum over the rows, one row per question of the quiz and none
\* else; a row is graded from the first entry for its question alone; entries
\* naming no question of the quiz change nothing
GradedOncePerQuestion ==
    GradedReply =>
        LET answers == response.request.answers
            rows == response.body.results
        IN  /\ Len(rows) = Len(TheQuiz.questions)
            /\ response.body.score = SumContributions(rows)
            /\ \A k \in 1..Len(rows) :
                  LET q == TheQuiz.questions[k]
                      first == FirstEntryFor(answers, q)
                  IN  /\ rows[k].questionId = q._id
                      /\ Contribution(rows[k]) \in {0, q.points}
                      /\ rows[k] = GradeQuestion(q, [i \in 1..Cardinality(first) |->
                                                        answers[CHOOSE h \in first : TRUE]])
            /\ rows = GradeResults(TheQuiz, EntriesForQuiz(answers, TheQuiz))

\* C29: every question contributes at most its own points to score, and once:
\* score is the sum of one contribution per question, no contribution exceeds
\* the points of its question, only the first entry for a question is graded,
\* and entries for other questionIds contribute nothing and get no row
C29_AtMostOwnPointsOnce ==
    /\ GradedOncePerQuestion
    /\ GradedReply =>
          \A k \in 1..Len(response.body.results) :
             Contribution(response.body.results[k]) <= TheQuiz.questions[k].points

(***************************************************************************)
(* SpecLimit: the rate limiter in front of POST /quizzes/:id/attempt.  The *)
(* stores of the limiter start empty or one request short of a limit.      *)
(***************************************************************************)
\* POST /quizzes/:id/attempt: rateLimiter(false) of the router, authenticate,
\* rateLimiter(true), validate, and the handler up to its first await
PostAttempt(principal, r, id, answers) ==
    Route("submitQuizAttempt", principal, Roles, TRUE, [id |-> id, answers |-> answers],
          SubmitLoadQuiz(r, id, principal.id, answers))

MaxLimited == 3

LimitPrincipals == {NoToken, Teacher, Student}

LimitSubmissions == {<<Pick(1, 2)>>}

InitLimit ==
    /\ quizzes \in StoresOf(EvenBodies, {})
    /\ progress = [key \in ProgressKeys |-> NoDoc]
    /\ req = [r \in Reqs |-> Idle]
    /\ response = NoReply
    /\ \E global \in {NoDoc, AlmostUsedUp(GLOBAL_LIMIT)},
          mine \in {NoDoc, AlmostUsedUp(USER_LIMIT)} :
          http = [NoTraffic EXCEPT !.globalStore = global,
                                   !.userStore = [@ EXCEPT ![Student.id] = mine]]

NextLimit ==
    \/ /\ http.served < MaxLimited
       /\ \E principal \in LimitPrincipals, r \in Reqs :
             \E id \in FlagIds, answers \in LimitSubmissions :
                PostAttempt(principal, r, id, answers)
    \/ \E r \in Reqs : SubmitFindProgress(r) /\ UNCHANGED http
    \/ \E r \in Reqs : SubmitSave(r) /\ UNCHANGED http
    \/ /\ http.now < MaxTicks * (WINDOW_MS \div 2)
       /\ Tick(WINDOW_MS \div 2)

SpecLimit == InitLimit /\ [][NextLimit]_vars

(***************************************************************************)
(* C30: the windows of the rate limiter.                                   *)
(***************************************************************************)
\* a request arrives in this step
RequestArrives == http'.served = http.served + 1

\* the window of an entry is open at the time of the request
WindowOpen(entry) == entry # NoDoc /\ http.now <= entry.resetTime

\* the entry after a request of its key: within an open window the end of the
\* window stays and the count goes up by one; otherwise a window of WINDOW_MS
\* opens with this request as its first
CountedInWindow(before, after) ==
    IF WindowOpen(before)
    THEN after.resetTime = before.resetTime /\ after.count = before.count + 1
    ELSE after.resetTime = http.now + WINDOW_MS /\ after.count = 1

\* the handler was not reached
NotHandled == quizzes' = quizzes /\ progress' = progress /\ req' = req

LimiterStep ==
    RequestArrives =>
       LET who == http'.principal
           global == http'.globalStore
       IN  /\ CountedInWindow(http.globalStore, global)
           /\ IF global.count > GLOBAL_LIMIT
              THEN /\ response'.status = 429
                   /\ NotHandled
                   /\ http'.userStore = http.userStore
              ELSE IF ~Authenticated(who)
              THEN /\ response'.status = 401
                   /\ NotHandled
                   /\ http'.userStore = http.userStore
              ELSE LET mine == http'.userStore[who.id]
                   IN  /\ CountedInWindow(http.userStore[who.id], mine)
                       /\ \A u \in UserOids \ {who.id} :
                             http'.userStore[u] = http.userStore[u]
                       /\ IF mine.count > USER_LIMIT
                          THEN response'.status = 429 /\ NotHandled
                          ELSE req' # req

\* between requests the entries stay as they are
LimiterIdleStep ==
    ~RequestArrives =>
       http'.globalStore = http.globalStore /\ http'.userStore = http.userStore

\* C30: per key (the client address in the global store, the user id in the
\* user store) a request is counted in the window open at its time, or opens a
\* window of 60 seconds as its first request when none is open; the request is
\* passed on while the count of its window is at most 100 (global) or 30 (user)
\* and answered 429 without reaching the next handler beyond that; no request,
\* passed or rejected, moves resetTime of an open window; after resetTime the
\* count starts again
C30_RateLimiterWindows == [][LimiterStep /\ LimiterIdleStep]_vars

\* a user whose window was full asks again at the very time of resetTime, with
\* the global window not used up: the request is counted in the same window
\* and answered 429, and the handler has served that user before
C30_Witness ==
    /\ response.op = "submitQuizAttempt"
    /\ response.status = 429
    /\ http.principal = Student
    /\ http.now = WINDOW_MS
    /\ http.globalStore.count <= GLOBAL_LIMIT
    /\ http.userStore[Student.id].count = USER_LIMIT + 1
    /\ http.userStore[Student.id].resetTime = WINDOW_MS
    /\ \E r \in Reqs : /\ Has(req[r], "status")
                       /\ req[r].userId = Student.id

====
